---- MODULE Spec2Model ----
(***************************************************************************)
(* MPStreamNotifier: the polling / notification coordination core.         *)
(*                                                                         *)
(*   src/src/background/background.js   scheduler, poll cycle, delta,      *)
(*                                      reminders, badge                   *)
(*   src/src/core/APIManager.js         aggregator (getStreams /           *)
(*                                      getSchedules)                      *)
(*   src/src/core/DataManager.js        snapshot + persistence             *)
(*   src/unnamed/part_005               Stream / Schedule / Settings       *)
(*                                                                         *)
(* Two specifications:                                                     *)
(*   SpecAgg  one APIManager.getStreams / getSchedules call, the platform  *)
(*            responses arriving in any order;                             *)
(*   Spec     the background service: triggers, poll cycles, retry timers. *)
(***************************************************************************)
EXTENDS Integers, Sequences, FiniteSets, TLC

(***************************************************************************)
(* Bounds of the exploration.                                              *)
(***************************************************************************)
MaxRequested == 2      \* longest platform list handed to the aggregator
MaxPolls == 3          \* poll requests (started or skipped) in one behaviour
MaxTicks == 1          \* clock ticks in one behaviour
MaxTasks == 2          \* fetchStreamData invocations that can be suspended
MaxSnapshot == 2       \* longest snapshot handed to a detection filter
MaxMessages == 2       \* control messages and settings operations handled
MaxReports == 52       \* reportError calls made to the ErrorManager
MaxRequests == 2       \* request calls made to one BaseAPIClient
MaxListeners == 3      \* listeners registered with one EventEmitter
MaxEmits == 2          \* emit calls made from outside a listener
MaxInvocations == 3    \* invocations of initializeBackgroundService
MaxRefreshes == 3      \* 'refresh' messages received
MaxCalls == 2          \* notify / show calls made to the NotificationManager

(***************************************************************************)
(* Program constants.                                                      *)
(***************************************************************************)
MAX_RETRY_ATTEMPTS == 3
maxRetries == 3         \* BaseAPIClient: retries of one request
maxErrorCount == 50     \* ErrorManager: errors kept in the history
RETRY_DELAY_MS == 30000

\* the clock advances in steps of one retry delay
TickMs == RETRY_DELAY_MS

\* clients registered by initializeBackgroundService, in registration order
PlatformOrder == <<"twitch", "youtube", "twitcasting">>
Platforms == {PlatformOrder[i] : i \in 1..Len(PlatformOrder)}

\* a platform name for which no client is registered
RequestNames == Platforms \cup {"other"}

VARIABLES
    \* ---- APIManager call under SpecAgg
    apiClients,     \* platform -> [registered, hasGetSchedules]
    aggState,       \* "idle" | "waiting" | "resolved" | "rejected"
    aggKind,        \* "streams" | "schedules"
    aggPlatforms,   \* the requested platforms, in request order
    aggResults,     \* Promise.allSettled slots, by request index
    aggArrival,     \* what the clients answered, in the order they answered
    aggValue,       \* the array the call resolved with
    aggErrors,      \* 'error' events emitted by the APIManager, in order
    errorLog        \* sources of the reports made to the ErrorManager

VARIABLES
    \* ---- background.js module state
    isUpdating,     \* the busy flag
    updateAttempts, \* the attempt counter
    lastUpdateTime, \* time of the last successful cycle, NoTime for null
    badge,          \* text of the status indicator
    retryTimers,    \* due times of the pending setTimeout(fetchStreamData)
    alarm,          \* the chrome alarm 'fetchStreamData'
    settings,       \* settingsManager.settings
    \* ---- DataManager and chrome.storage.local
    dmStreams,      \* dataManager.streams
    dmSchedules,    \* dataManager.schedules
    stStreams,      \* storage key 'streams'
    stSchedules,    \* storage key 'schedules'
    stPrevious,     \* storage key 'previousStreams'
    pendingPrev,    \* previousStreams writes issued and not yet landed
    \* ---- the invocations of fetchStreamData
    pc,             \* task -> the await the invocation is suspended at
    loc,            \* task -> its local variables
    \* ---- environment and history
    now,            \* the clock, in milliseconds
    ticks,          \* clock ticks so far
    polls,          \* poll requests so far
    liveNotified,   \* stream key -> 'went live' notifications shown for it
    reminded        \* schedule key -> reminder notifications shown for it

VARIABLES
    \* ---- the delta detection filters, applied to given snapshots (SpecDelta)
    dIn,            \* the snapshots, the settings and the clock handed in
    dOut            \* what the filter selected

deltaVars == <<dIn, dOut>>

VARIABLES
    \* ---- NotificationManager (SpecNotif, SpecClick)
    nmSettings,          \* this.settings, NoSettings for null
    notifiedStreamIds,   \* this.notifiedStreamIds
    notifiedScheduleIds, \* this.notifiedScheduleIds
    nmPending,           \* calls suspended at await chrome.notifications.create
    osNotifications,     \* ids of the notifications the OS displays
    nmEmitted,           \* events emitted by the last operation, in order
    \* ---- history
    nmCall,              \* the call that last began or settled, and its outcome
    nmCalls,             \* notify / show calls so far
    nmSucceeded          \* <<kind, key>> notified successfully and not reset since

nmVars == <<nmSettings, notifiedStreamIds, notifiedScheduleIds, nmPending,
            osNotifications, nmEmitted, nmCall, nmCalls, nmSucceeded>>

aggVars == <<apiClients, aggState, aggKind, aggPlatforms, aggResults,
             aggArrival, aggValue, aggErrors, errorLog>>

schedVars == <<isUpdating, updateAttempts, lastUpdateTime, badge, retryTimers>>

dataVars == <<dmStreams, dmSchedules, stStreams, stSchedules, stPrevious>>

histVars == <<liveNotified, reminded>>

envVars == <<now, ticks, polls>>

bgVars == <<schedVars, alarm, settings, dataVars, pendingPrev, pc, loc,
            envVars, histVars>>

VARIABLES
    \* ---- DataManager operations called one at a time (SpecData)
    dmSave,         \* the save a DataManager operation is suspended in
    \* ---- settings and control messages (SpecControl)
    stSettings,     \* chrome.storage.local 'settings'
    ctlPending,     \* chrome calls of the control handlers not yet called back
    messages,       \* control messages and settings operations so far
    \* ---- ErrorManager (SpecErrors)
    errors,         \* this.errors: the reports kept, by report number
    reported,       \* reportError calls so far
    \* ---- BaseAPIClient.request (SpecRequest)
    rq,             \* the request in progress: position, locals, outcome
    requests,       \* request calls so far
    \* ---- EventEmitter (SpecEmitter)
    ee,             \* listeners of one event, emits made, callback calls
    \* ---- initializeBackgroundService (SpecBoot)
    boot,           \* isInitialized, each invocation's position, steps run
    \* ---- 'refresh' messages and their responses (SpecRefresh)
    rf              \* busy flag, cycle in flight, the requests received

errVars == <<errors, reported>>

rqVars == <<rq, requests>>

lateVars == <<ee, boot, rf>>

compVars ==
    <<dmSave, stSettings, ctlPending, messages, errVars, rqVars, lateVars>>

\* the variables of the specifications that exercise one component alone
auxVars == <<deltaVars, nmVars, compVars>>

vars == <<aggVars, bgVars, auxVars>>

(***************************************************************************)
(* Sequence helpers.                                                       *)
(***************************************************************************)
Range(s) == {s[i] : i \in 1..Len(s)}

\* sequences without repetition over S, of length at most n
RECURSIVE DistinctSeqs(_, _)
DistinctSeqs(S, n) ==
    IF n = 0 THEN {<<>>}
    ELSE LET shorter == DistinctSeqs(S, n - 1)
         IN  shorter \cup
             UNION {{Append(s, x) : x \in S \ Range(s)} :
                        s \in {q \in shorter : Len(q) = n - 1}}

RECURSIVE Concat(_)
\* the concatenation of a sequence of sequences
Concat(ss) == IF ss = <<>> THEN <<>> ELSE Head(ss) \o Concat(Tail(ss))

(***************************************************************************)
(* Data model (src/unnamed/part_005).                                      *)
(***************************************************************************)
\* a Stream as the platform clients build it: isFavorite and notified are
\* always false in a client response
Stream(p, i) ==
    [platformType |-> p, id |-> i, isFavorite |-> FALSE, notified |-> FALSE]

\* a Schedule as the platform clients build it
Schedule(p, i, start) ==
    [platformType |-> p, id |-> i, scheduledStartTime |-> start,
     notified |-> FALSE]

\* identity key of a stream or schedule
Key(e) == <<e.platformType, e.id>>

(***************************************************************************)
(* APIManager.getStreams / getSchedules                                    *)
(***************************************************************************)
Pending == [status |-> "pending", value |-> <<>>]
Rejected == [status |-> "rejected", value |-> <<>>]
Fulfilled(items) == [status |-> "fulfilled", value |-> items]

\* the promise the map callback creates for one platform: rejected at once
\* when no client is registered, or (schedules) when the client has no
\* getSchedules; otherwise the client's pending request
InitialResult(clients, kind, platform) ==
    IF ~clients[platform].registered THEN Rejected
    ELSE IF kind = "schedules" /\ ~clients[platform].hasGetSchedules
         THEN Rejected
         ELSE Pending

\* results.forEach: the fulfilled values pushed in index order; a rejected
\* slot is skipped and the iteration goes on
RECURSIVE MergeFulfilled_abort(_)
MergeFulfilled_abort(results) ==
    IF results = <<>> \/ Head(results).status # "fulfilled" THEN <<>>
    ELSE Head(results).value \o MergeFulfilled_abort(Tail(results))

RECURSIVE MergeFulfilled(_)
MergeFulfilled(results) ==
    IF results = <<>> THEN <<>>
    ELSE (IF Head(results).status = "fulfilled"
          THEN Head(results).value ELSE <<>>)
         \o MergeFulfilled(Tail(results))

\* the request indexes whose slot is rejected, in index order
FailedIndexes(results) ==
    SelectSeq([i \in 1..Len(results) |-> i],
              LAMBDA i : results[i].status = "rejected")

\* the per-platform 'error' events emitted inside results.forEach
PlatformErrors_all(kind, platforms, results) ==
    [j \in 1..Len(platforms) |->
        [code |-> IF kind = "streams" THEN "API_STREAMS_ERROR"
                  ELSE "API_SCHEDULES_ERROR",
         source |-> platforms[j]]]

PlatformErrors(kind, platforms, results) ==
    LET failed == FailedIndexes(results)
    IN  [j \in 1..Len(failed) |->
            [code |-> IF kind = "streams" THEN "API_STREAMS_ERROR"
                      ELSE "API_SCHEDULES_ERROR",
             source |-> platforms[failed[j]]]]

\* errors.length > 0 && errors.length === platforms.length
AllFailed_any(platforms, results) ==
    Len(FailedIndexes(results)) > 0

AllFailed(platforms, results) ==
    /\ Len(FailedIndexes(results)) > 0
    /\ Len(FailedIndexes(results)) = Len(platforms)

\* the event emitted by the catch block when the call rejects: no source
CompositeError(kind) ==
    [code |-> IF kind = "streams" THEN "API_STREAMS_ERROR"
              ELSE "API_SCHEDULES_ERROR",
     source |-> "undefined"]

\* all 'error' events of one call, in emission order
EmittedErrors(kind, platforms, results) ==
    PlatformErrors(kind, platforms, results)
    \o (IF AllFailed(platforms, results) THEN <<CompositeError(kind)>>
        ELSE <<>>)

\* apiManager.on('error', ...) in background.js: error.source || 'api'
ReportedSource(event) ==
    IF event.source = "undefined" THEN "api" ELSE event.source

\* ---- inputs of the aggregator specification
AggItemIds == {"1", "2"}

AggItem(kind, p, i) ==
    IF kind = "streams" THEN Stream(p, i) ELSE Schedule(p, i, 0)

\* what a client may answer: a failure, or a list of distinct items
AggResponses(kind, p) ==
    {Rejected} \cup
    {Fulfilled([k \in 1..Len(ids) |-> AggItem(kind, p, ids[k])]) :
        ids \in DistinctSeqs(AggItemIds, 2)}

\* client registries: the one of background.js (three full clients) and
\* one whose twitcasting client lacks getSchedules; "other" has no client
ClientRegistries ==
    {[p \in RequestNames |->
        [registered |-> p \in Platforms,
         hasGetSchedules |-> p \in Platforms /\ (full \/ p # "twitcasting")]]
     : full \in BOOLEAN}

\* schedule ids a channel list can hold
ScheduleIds == {"1", "2"}

\* the registry of background.js over platforms of which twitch announces
\* the given schedules
ClientsAnnouncing(ids) ==
    [p \in RequestNames |->
        [registered |-> p \in Platforms, hasGetSchedules |-> p \in Platforms,
         schedules |-> IF p = "twitch" THEN ids ELSE {}]]

BackgroundClients == ClientsAnnouncing({"1"})

(***************************************************************************)
(* Background service: settings, data and pure helpers.                    *)
(***************************************************************************)
NoTime == -1

Tasks == 1..MaxTasks

\* ids a platform can report in the background specification
StreamIds == {"1"}

StreamKeys == Platforms \X StreamIds

\* the one platform that announces schedules, and their start time
ScheduleKeys == {"twitch"} \X ScheduleIds

ScheduleStart == TickMs

\* Settings as new Settings(data) leaves them; the stored settings the
\* options page may have written
SettingsWith(enabled, notifications, onlyFavorites, withReminders) ==
    [updateInterval |-> 60,
     enableNotifications |-> notifications,
     notifyOnlyFavorites |-> onlyFavorites,
     reminders |-> withReminders,
     reminderTime |-> 1,
     enabledPlatforms |-> [p \in Platforms |-> p \in enabled]]

SettingsChoices ==
    {SettingsWith({"twitch", "youtube"}, TRUE, FALSE, TRUE),
     SettingsWith({"twitch", "youtube"}, FALSE, FALSE, TRUE),
     SettingsWith({"twitch"}, TRUE, FALSE, FALSE),
     SettingsWith({}, TRUE, FALSE, TRUE)}

\* settingsManager.getSettings(): the manager's current settings object
GetSettings == settings

\* Object.entries(settings.enabledPlatforms).filter(enabled).map(name)
EnabledPlatforms(s) ==
    SelectSeq(PlatformOrder, LAMBDA p : s.enabledPlatforms[p])

\* platforms whose client has a getSchedules function (lines 199-202)
ScheduleCapable(platforms) ==
    SelectSeq(platforms, LAMBDA p : /\ apiClients[p].registered
                                    /\ apiClients[p].hasGetSchedules)

\* what a platform client may answer to getStreams / getSchedules
StreamResponses(p) ==
    {Rejected} \cup
    {Fulfilled([k \in 1..Len(ids) |-> Stream(p, ids[k])]) :
        ids \in DistinctSeqs(StreamIds, 1)}

ScheduleResponses(p) ==
    {Rejected} \cup
    {Fulfilled([k \in 1..Len(ids) |-> Schedule(p, ids[k], ScheduleStart)]) :
        ids \in DistinctSeqs(apiClients[p].schedules,
                             Cardinality(apiClients[p].schedules))}

\* the settled results of one aggregator call, given each client's answer
SettledResults(kind, platforms, resp) ==
    [i \in 1..Len(platforms) |->
        IF InitialResult(apiClients, kind, platforms[i]) = Pending
        THEN resp[i] ELSE Rejected]

HasKey(list, e) == \E j \in 1..Len(list) : Key(list[j]) = Key(e)

\* the filter of checkForNewStreamsAndReminders (lines 272-283)
NewStreams_byId(current, previous, s) ==
    SelectSeq(current, LAMBDA c :
        /\ ~c.notified
        /\ ~(s.notifyOnlyFavorites /\ ~c.isFavorite)
        /\ ~\E j \in 1..Len(previous) : previous[j].id = c.id)

NewStreams(current, previous, s) ==
    SelectSeq(current, LAMBDA c :
        /\ ~c.notified
        /\ ~(s.notifyOnlyFavorites /\ ~c.isFavorite)
        /\ ~HasKey(previous, c))

maxNotifications == 5

\* streams.slice(0, maxNotifications)
StreamsToNotify(streams) ==
    SubSeq(streams, 1, IF Len(streams) < maxNotifications
                       THEN Len(streams) ELSE maxNotifications)

\* currentStreams.map(...): notified set on every stream found in newStreams
MarkNotified(current, newStreams) ==
    [j \in 1..Len(current) |->
        IF HasKey(newStreams, current[j])
        THEN [current[j] EXCEPT !.notified = TRUE] ELSE current[j]]

\* the filter of checkScheduleReminders (lines 380-387)
SchedulesToRemind_strict(schedules, time, s) ==
    LET reminderMinutes == IF s.reminderTime = 0 THEN 10 ELSE s.reminderTime
        reminderThreshold == time + reminderMinutes * 60 * 1000
    IN  SelectSeq(schedules, LAMBDA e :
            /\ e.scheduledStartTime # 0
            /\ ~e.notified
            /\ e.scheduledStartTime > time
            /\ e.scheduledStartTime < reminderThreshold)

SchedulesToRemind(schedules, time, s) ==
    LET reminderMinutes == IF s.reminderTime = 0 THEN 10 ELSE s.reminderTime
        reminderThreshold == time + reminderMinutes * 60 * 1000
    IN  SelectSeq(schedules, LAMBDA e :
            /\ e.scheduledStartTime # 0
            /\ ~e.notified
            /\ e.scheduledStartTime > time
            /\ e.scheduledStartTime <= reminderThreshold)

\* DataManager.updateSchedule: replace the entry with the same key, or push
UpdateSchedule(schedules, e) ==
    IF HasKey(schedules, e)
    THEN [j \in 1..Len(schedules) |->
             IF j = (CHOOSE k \in 1..Len(schedules) :
                        /\ Key(schedules[k]) = Key(e)
                        /\ \A m \in 1..(k - 1) : Key(schedules[m]) # Key(e))
             THEN e ELSE schedules[j]]
    ELSE Append(schedules, e)

\* updateAttempts < MAX_RETRY_ATTEMPTS, after the increment
WillRetry_inclusive(attempts) == attempts <= MAX_RETRY_ATTEMPTS

WillRetry(attempts) == attempts < MAX_RETRY_ATTEMPTS

\* line 167: the value the busy flag has when fetchStreamData first suspends
BusyAtEntry_unset == FALSE

BusyAtEntry == TRUE

\* lines 250-252: the busy flag once the finally block has run
BusyAtExit_kept == TRUE

BusyAtExit == FALSE

\* line 221: the attempt counter after a successful cycle
AttemptsAfterSuccess_kept(attempts) == attempts

AttemptsAfterSuccess(attempts) == 0

\* delayInMinutes: 0.1 of setupAlarms and scheduleImmediateUpdate, in seconds
InitialDelaySeconds == 6

\* chrome.alarms.create in setupAlarms, the delay and the period in seconds
PeriodicAlarm_unclamped(s) ==
    [armed |-> TRUE, periodic |-> TRUE, delaySeconds |-> InitialDelaySeconds,
     periodSeconds |-> s.updateInterval]

PeriodicAlarm(s) ==
    [armed |-> TRUE, periodic |-> TRUE, delaySeconds |-> InitialDelaySeconds,
     periodSeconds |-> IF s.updateInterval < 60 THEN 60 ELSE s.updateInterval]

\* the locals of an invocation that is not running
EmptyLoc ==
    [platforms |-> <<>>, streams |-> <<>>, saving |-> <<>>,
     newStreams |-> <<>>, toRemind |-> <<>>, idx |-> 0,
     settings |-> SettingsWith({}, FALSE, FALSE, FALSE)]

\* DataManager and chrome.storage.local before anything was fetched
NothingStored ==
    /\ dmStreams = <<>>
    /\ dmSchedules = <<>>
    /\ stStreams = <<>>
    /\ stSchedules = <<>>
    /\ stPrevious = <<>>

\* the scheduler at rest, before any poll
BgIdle ==
    /\ isUpdating = FALSE
    /\ updateAttempts = 0
    /\ lastUpdateTime = NoTime
    /\ badge = ""
    /\ retryTimers = <<>>
    /\ pendingPrev = <<>>
    /\ pc = [t \in Tasks |-> "idle"]
    /\ loc = [t \in Tasks |-> EmptyLoc]
    /\ now = 0
    /\ ticks = 0
    /\ polls = 0
    /\ liveNotified = [k \in StreamKeys |-> 0]
    /\ reminded = [k \in ScheduleKeys |-> 0]

\* the background service at rest, nothing stored, before any poll
BgQuiet == BgIdle /\ NothingStored

AggQuiet ==
    /\ aggState = "idle"
    /\ aggKind = "streams"
    /\ aggPlatforms = <<>>
    /\ aggResults = <<>>
    /\ aggArrival = <<>>
    /\ aggValue = <<>>
    /\ aggErrors = <<>>
    /\ errorLog = <<>>

\* no snapshot has been handed to the detection filters
DeltaQuiet ==
    /\ dIn = [op |-> "none"]
    /\ dOut = [done |-> FALSE, result |-> <<>>]

\* this.settings of the NotificationManager; `present` is false for null
NmSettingsWith(notifications, onlyFavorites, withReminders) ==
    [present |-> TRUE, enableNotifications |-> notifications,
     notifyOnlyFavorites |-> onlyFavorites, reminders |-> withReminders]

NoSettings ==
    [present |-> FALSE, enableNotifications |-> FALSE,
     notifyOnlyFavorites |-> FALSE, reminders |-> FALSE]

\* null as a notification id
NullId == <<>>

NoEntity == [platformType |-> "", id |-> ""]

\* the record of a call: what was asked and how it ended
NoCall ==
    [kind |-> "none", entity |-> NoEntity, outcome |-> "none",
     result |-> NullId]

\* the NotificationManager as its constructor leaves it (part_000 10-16)
NotifQuiet ==
    /\ nmSettings = NoSettings
    /\ notifiedStreamIds = {}
    /\ notifiedScheduleIds = {}
    /\ nmPending = <<>>
    /\ osNotifications = {}
    /\ nmEmitted = <<>>
    /\ nmCall = NoCall
    /\ nmCalls = 0
    /\ nmSucceeded = {}

\* no save of a DataManager operation is awaited
NoSave == [key |-> "none", list |-> <<>>]

\* BaseAPIClient: no request was made
NoRequest ==
    [pc |-> "idle", retries |-> 0, fetches |-> 0, aborted |-> FALSE,
     last |-> [kind |-> "none", status |-> 0], result |-> "none"]

\* EventEmitter constructor: no listener; nothing emitted or called yet
NoEmitter == [listeners |-> <<>>, onces |-> <<>>, emits |-> 0, calls |-> <<>>]

\* the invocations of initializeBackgroundService: at module load, by
\* onInstalled and by onStartup
Invocations == 1..MaxInvocations

\* what one initialization does, in the order of lines 51-89
InitSteps ==
    {"settings", "api", "data", "notification", "listeners", "alarms",
     "refresh"}

\* the module is loaded and nothing has run: isInitialized = false
NotBooted ==
    [isInitialized |-> FALSE,
     pc |-> [i \in Invocations |-> "notCalled"],
     ran |-> [step \in InitSteps |-> 0]]

\* background.js loaded: isUpdating = false, no message received
NoRefresh == [busy |-> FALSE, cycle |-> "none", owner |-> 0, requests |-> <<>>]

\* the components exercised alone, untouched
CompQuiet ==
    /\ dmSave = NoSave
    /\ stSettings = settings
    /\ ctlPending = <<>>
    /\ messages = 0
    /\ errors = <<>>
    /\ reported = 0
    /\ rq = NoRequest
    /\ requests = 0
    /\ ee = NoEmitter
    /\ boot = NotBooted
    /\ rf = NoRefresh

AuxQuiet == DeltaQuiet /\ NotifQuiet /\ CompQuiet

AggInit ==
    /\ apiClients \in ClientRegistries
    /\ AggQuiet
    /\ BgQuiet
    /\ settings = SettingsWith(Platforms, TRUE, FALSE, FALSE)
    /\ alarm = PeriodicAlarm(settings)
    /\ AuxQuiet

\* getStreams / getSchedules called: the map callback runs for every
\* platform and the call suspends at await Promise.allSettled
AggCall(kind, platforms) ==
    /\ UNCHANGED <<bgVars, auxVars>>
    /\ aggState = "idle"
    /\ aggState' = "waiting"
    /\ aggKind' = kind
    /\ aggPlatforms' = platforms
    /\ aggResults' = [i \in 1..Len(platforms) |->
                         InitialResult(apiClients, kind, platforms[i])]
    /\ aggArrival' = <<>>
    /\ aggValue' = <<>>
    /\ aggErrors' = <<>>
    /\ errorLog' = <<>>
    /\ UNCHANGED apiClients

\* one client request settles
AggSettle(i, r) ==
    /\ UNCHANGED <<bgVars, auxVars>>
    /\ aggState = "waiting"
    /\ i \in 1..Len(aggPlatforms)
    /\ aggResults[i] = Pending
    /\ r \in AggResponses(aggKind, aggPlatforms[i])
    /\ aggResults' = [aggResults EXCEPT ![i] = r]
    /\ aggArrival' = Append(aggArrival, [index |-> i, response |-> r])
    /\ UNCHANGED <<apiClients, aggState, aggKind, aggPlatforms, aggValue,
                   aggErrors, errorLog>>

\* Promise.allSettled resolves: every slot is settled; the results are
\* merged, the errors emitted, and the call resolves or rejects
AggReturn ==
    /\ UNCHANGED <<bgVars, auxVars>>
    /\ aggState = "waiting"
    /\ \A i \in 1..Len(aggResults) : aggResults[i] # Pending
    /\ LET events == EmittedErrors(aggKind, aggPlatforms, aggResults)
       IN  /\ aggErrors' = events
           /\ errorLog' = [j \in 1..Len(events) |->
                              [code |-> events[j].code,
                               source |-> ReportedSource(events[j])]]
    /\ IF AllFailed(aggPlatforms, aggResults)
       THEN aggState' = "rejected" /\ aggValue' = <<>>
       ELSE aggState' = "resolved" /\ aggValue' = MergeFulfilled(aggResults)
    /\ UNCHANGED <<apiClients, aggKind, aggPlatforms, aggResults, aggArrival>>

\* the caller has taken the outcome; the manager is ready for another call
AggDone ==
    /\ UNCHANGED <<bgVars, auxVars>>
    /\ aggState \in {"resolved", "rejected"}
    /\ aggState' = "idle"
    /\ aggPlatforms' = <<>>
    /\ aggResults' = <<>>
    /\ aggArrival' = <<>>
    /\ aggValue' = <<>>
    /\ aggErrors' = <<>>
    /\ errorLog' = <<>>
    /\ UNCHANGED <<apiClients, aggKind>>

AggNext ==
    \/ \E kind \in {"streams", "schedules"} :
         \E platforms \in DistinctSeqs(RequestNames, MaxRequested) :
            AggCall(kind, platforms)
    \/ \E i \in 1..Len(aggPlatforms) :
         \E r \in AggResponses(aggKind, aggPlatforms[i]) : AggSettle(i, r)
    \/ AggReturn
    \/ AggDone

SpecAgg == AggInit /\ [][AggNext]_vars

(***************************************************************************)
(* Background service: the poll cycle (fetchStreamData) and its triggers.  *)
(* Every action runs from one suspension point (await) to the next.        *)
(***************************************************************************)
BgInit ==
    /\ apiClients = BackgroundClients
    /\ AggQuiet
    /\ BgQuiet
    /\ settings \in SettingsChoices
    /\ alarm = PeriodicAlarm(settings)
    /\ AuxQuiet

\* the invocation suspends at an await
Suspend(t, label, locals) ==
    /\ pc' = [pc EXCEPT ![t] = label]
    /\ loc' = [loc EXCEPT ![t] = locals]
    /\ UNCHANGED <<schedVars, pendingPrev>>

\* lines 216-227 and the finally block: the cycle completes successfully
Complete(t) ==
    /\ badge' = ToString(Len(loc[t].streams))
    /\ lastUpdateTime' = now
    /\ updateAttempts' = AttemptsAfterSuccess(updateAttempts)
    /\ isUpdating' = BusyAtExit
    /\ UNCHANGED retryTimers
    /\ pc' = [pc EXCEPT ![t] = "idle"]
    /\ loc' = [loc EXCEPT ![t] = EmptyLoc]

\* line 309: the previousStreams write is issued and not awaited; the
\* function returns and the cycle completes
EndCheck(t) ==
    /\ pendingPrev' = Append(pendingPrev, loc[t].streams)
    /\ Complete(t)

\* lines 259-269: checkForNewStreamsAndReminders up to its first await
EnterCheck(t) ==
    IF ~GetSettings.enableNotifications
    THEN UNCHANGED pendingPrev /\ Complete(t)
    ELSE Suspend(t, "getPrevious", [loc[t] EXCEPT !.settings = GetSettings])

\* lines 303-306 and checkScheduleReminders up to its first await
AfterNewStreams(t) ==
    LET list == SchedulesToRemind(dmSchedules, now, GetSettings)
    IN  IF loc[t].settings.reminders /\ GetSettings.reminders /\ list # <<>>
        THEN Suspend(t, "remind", [loc[t] EXCEPT !.toRemind = list, !.idx = 1])
        ELSE EndCheck(t)

\* lines 161-191: fetchStreamData from its call to its first await
FetchStreamData(t) ==
    IF isUpdating
    THEN UNCHANGED <<isUpdating, badge, pc, loc>>
    ELSE IF EnabledPlatforms(GetSettings) = <<>>
         THEN /\ badge' = "0"
              /\ isUpdating' = FALSE
              /\ UNCHANGED <<pc, loc>>
         ELSE /\ badge' = "..."
              /\ isUpdating' = BusyAtEntry
              /\ pc' = [pc EXCEPT ![t] = "getStreams"]
              /\ loc' = [loc EXCEPT ![t] =
                           [EmptyLoc EXCEPT
                               !.platforms = EnabledPlatforms(GetSettings)]]

\* a poll request is handled: fetchStreamData is called
PollRequest ==
    /\ polls < MaxPolls
    /\ \E t \in Tasks :
         /\ pc[t] = "idle"
         /\ \A u \in Tasks : u < t => pc[u] # "idle"
         /\ FetchStreamData(t)
    /\ polls' = polls + 1
    /\ UNCHANGED <<updateAttempts, lastUpdateTime, pendingPrev, settings,
                   dataVars, now, ticks, histVars, aggVars, auxVars>>

\* chrome.alarms.onAlarm for 'fetchStreamData'
AlarmFires ==
    /\ alarm.armed
    /\ alarm' = IF alarm.periodic THEN alarm ELSE [alarm EXCEPT !.armed = FALSE]
    /\ UNCHANGED retryTimers
    /\ PollRequest

\* a setTimeout(fetchStreamData, RETRY_DELAY_MS) comes due
RetryFires ==
    /\ \E k \in 1..Len(retryTimers) :
         /\ retryTimers[k] <= now
         /\ retryTimers' = SubSeq(retryTimers, 1, k - 1)
                           \o SubSeq(retryTimers, k + 1, Len(retryTimers))
    /\ UNCHANGED alarm
    /\ PollRequest

\* a 'refresh' message arrives
RefreshMessage ==
    /\ UNCHANGED <<alarm, retryTimers>>
    /\ PollRequest

\* a failed fetch that empties the snapshot
SnapshotAfterFailure_emptied(streams) == <<>>

\* line 191 throws: replaceStreams (line 194) is not reached and the
\* snapshot DataManager holds stays
SnapshotAfterFailure(streams) == streams

\* line 191 resumes: apiManager.getStreams has settled.  It rejects when
\* every enabled platform failed (catch block, lines 228-252); otherwise
\* the streams are handed to replaceStreams, which suspends in saveStreams
GetStreamsSettled(t, resp) ==
    /\ pc[t] = "getStreams"
    /\ LET results == SettledResults("streams", loc[t].platforms, resp)
       IN  IF AllFailed(loc[t].platforms, results)
           THEN /\ updateAttempts' = updateAttempts + 1
                /\ badge' = "!"
                /\ retryTimers' = IF WillRetry(updateAttempts')
                                  THEN Append(retryTimers, now + RETRY_DELAY_MS)
                                  ELSE retryTimers
                /\ isUpdating' = BusyAtExit
                /\ pc' = [pc EXCEPT ![t] = "idle"]
                /\ loc' = [loc EXCEPT ![t] = EmptyLoc]
                /\ dmStreams' = SnapshotAfterFailure(dmStreams)
                /\ UNCHANGED <<lastUpdateTime, pendingPrev>>
           ELSE /\ dmStreams' = MergeFulfilled(results)
                /\ Suspend(t, "saveStreams",
                           [loc[t] EXCEPT !.streams = MergeFulfilled(results),
                                          !.saving = MergeFulfilled(results)])
    /\ UNCHANGED <<alarm, settings, dmSchedules, stStreams, stSchedules,
                   stPrevious, envVars, histVars, aggVars, auxVars>>

\* line 194 resumes: the 'streams' write has landed; the schedule fetch is
\* started for the schedule-capable platforms (lines 196-205)
SaveStreamsDone(t) ==
    /\ pc[t] = "saveStreams"
    /\ pendingPrev = <<>>
    /\ stStreams' = loc[t].saving
    /\ dmStreams' = loc[t].saving
    /\ IF ScheduleCapable(loc[t].platforms) # <<>>
       THEN Suspend(t, "getSchedules", loc[t])
       ELSE EnterCheck(t)
    /\ UNCHANGED <<alarm, settings, dmSchedules, stSchedules, stPrevious,
                   envVars, histVars, aggVars, auxVars>>

\* a failed schedule fetch that empties the schedule snapshot
SchedulesAfterFailure_emptied(schedules) == <<>>

\* line 205 throws: replaceSchedules (line 206) is not reached, the error
\* is logged (lines 208-211) and the schedule snapshot stays
SchedulesAfterFailure(schedules) == schedules

\* line 205 resumes: apiManager.getSchedules has settled.  A rejection is
\* caught and logged (lines 208-211); otherwise replaceSchedules suspends
GetSchedulesSettled(t, resp) ==
    /\ pc[t] = "getSchedules"
    /\ LET capable == ScheduleCapable(loc[t].platforms)
           results == SettledResults("schedules", capable, resp)
       IN  IF AllFailed(capable, results)
           THEN /\ dmSchedules' = SchedulesAfterFailure(dmSchedules)
                /\ EnterCheck(t)
           ELSE /\ dmSchedules' = MergeFulfilled(results)
                /\ Suspend(t, "saveSchedules",
                           [loc[t] EXCEPT !.saving = MergeFulfilled(results)])
    /\ UNCHANGED <<alarm, settings, dmStreams, stStreams, stSchedules,
                   stPrevious, envVars, histVars, aggVars, auxVars>>

\* line 206 resumes: the 'schedules' write has landed
SaveSchedulesDone(t) ==
    /\ pc[t] = "saveSchedules"
    /\ pendingPrev = <<>>
    /\ stSchedules' = loc[t].saving
    /\ dmSchedules' = loc[t].saving
    /\ EnterCheck(t)
    /\ UNCHANGED <<alarm, settings, dmStreams, stStreams, stPrevious,
                   envVars, histVars, aggVars, auxVars>>

\* line 265 resumes with the stored previousStreams: the new streams are
\* selected and notifyNewStreams suspends in showNotification
GetPreviousDone(t) ==
    /\ pc[t] = "getPrevious"
    /\ pendingPrev = <<>>
    /\ LET fresh == NewStreams(loc[t].streams, stPrevious, loc[t].settings)
       IN  IF fresh # <<>>
           THEN Suspend(t, "notifyStreams", [loc[t] EXCEPT !.newStreams = fresh])
           ELSE AfterNewStreams(t)
    /\ UNCHANGED <<alarm, settings, dataVars, envVars, histVars, aggVars, auxVars>>

\* notificationManager.showNotification settles (lines 338 / 352): shown, or
\* thrown and logged by notifyNewStreams.  Either way the new streams are
\* marked notified and stored again (lines 290-300)
NotifyStreamsDone(t, shown) ==
    /\ pc[t] = "notifyStreams"
    /\ liveNotified' =
         [k \in StreamKeys |->
            IF shown /\ \E j \in 1..Len(StreamsToNotify(loc[t].newStreams)) :
                           Key(StreamsToNotify(loc[t].newStreams)[j]) = k
            THEN liveNotified[k] + 1 ELSE liveNotified[k]]
    /\ dmStreams' = MarkNotified(loc[t].streams, loc[t].newStreams)
    /\ Suspend(t, "saveNotified",
               [loc[t] EXCEPT !.saving =
                    MarkNotified(loc[t].streams, loc[t].newStreams)])
    /\ UNCHANGED <<alarm, settings, dmSchedules, stStreams, stSchedules,
                   stPrevious, envVars, reminded, aggVars, auxVars>>

\* line 300 resumes: the marked streams are stored
SaveNotifiedDone(t) ==
    /\ pc[t] = "saveNotified"
    /\ pendingPrev = <<>>
    /\ stStreams' = loc[t].saving
    /\ dmStreams' = loc[t].saving
    /\ AfterNewStreams(t)
    /\ UNCHANGED <<alarm, settings, dmSchedules, stSchedules, stPrevious,
                   envVars, histVars, aggVars, auxVars>>

\* line 404 resumes: the reminder was shown and updateSchedule suspends in
\* saveSchedules, or showNotification threw and checkScheduleReminders
\* logs it and returns (lines 419-421)
RemindDone(t, shown) ==
    /\ pc[t] = "remind"
    /\ LET e == loc[t].toRemind[loc[t].idx]
           updated == UpdateSchedule(dmSchedules, [e EXCEPT !.notified = TRUE])
       IN  IF shown
           THEN /\ reminded' = [reminded EXCEPT ![Key(e)] = @ + 1]
                /\ dmSchedules' = updated
                /\ Suspend(t, "saveReminded", [loc[t] EXCEPT !.saving = updated])
           ELSE /\ UNCHANGED <<reminded, dmSchedules>>
                /\ EndCheck(t)
    /\ UNCHANGED <<alarm, settings, dmStreams, stStreams, stSchedules,
                   stPrevious, envVars, liveNotified, aggVars, auxVars>>

\* line 411 resumes: the reminded schedule is stored; the loop goes on
SaveRemindedDone(t) ==
    /\ pc[t] = "saveReminded"
    /\ pendingPrev = <<>>
    /\ stSchedules' = loc[t].saving
    /\ dmSchedules' = loc[t].saving
    /\ IF loc[t].idx < Len(loc[t].toRemind)
       THEN Suspend(t, "remind", [loc[t] EXCEPT !.idx = @ + 1])
       ELSE EndCheck(t)
    /\ UNCHANGED <<alarm, settings, dmStreams, stStreams, stPrevious,
                   envVars, histVars, aggVars, auxVars>>

\* the un-awaited chrome.storage.local.set({previousStreams}) lands
PreviousWriteLands ==
    /\ pendingPrev # <<>>
    /\ stPrevious' = Head(pendingPrev)
    /\ pendingPrev' = Tail(pendingPrev)
    /\ UNCHANGED <<schedVars, alarm, settings, dmStreams, dmSchedules,
                   stStreams, stSchedules, pc, loc, envVars, histVars, aggVars, auxVars>>

\* time passes
Tick ==
    /\ ticks < MaxTicks
    /\ ticks' = ticks + 1
    /\ now' = now + TickMs
    /\ UNCHANGED <<schedVars, alarm, settings, dataVars, pendingPrev, pc, loc,
                   polls, histVars, aggVars, auxVars>>

\* notificationManager.showNotification(id, options, url): the notification
\* is shown (TRUE) or the call throws (FALSE)
ShowNotificationOutcomes == {TRUE, FALSE}

\* the answers the requested platforms may give
ResponsesOf(kind, p) ==
    IF kind = "streams" THEN StreamResponses(p) ELSE ScheduleResponses(p)

\* the invocations suspended at the given await
Awaiting(label) == {t \in Tasks : pc[t] = label}

AnswersTo(kind, platforms) ==
    {resp \in [1..Len(platforms) ->
                 UNION {ResponsesOf(kind, platforms[i]) : i \in 1..Len(platforms)}] :
        \A i \in 1..Len(platforms) : resp[i] \in ResponsesOf(kind, platforms[i])}

Next ==
    \/ AlarmFires
    \/ RetryFires
    \/ RefreshMessage
    \/ \E t \in Awaiting("getStreams") :
         \E resp \in AnswersTo("streams", loc[t].platforms) :
            GetStreamsSettled(t, resp)
    \/ \E t \in Tasks : SaveStreamsDone(t)
    \/ \E t \in Awaiting("getSchedules") :
         \E resp \in AnswersTo("schedules",
                               ScheduleCapable(loc[t].platforms)) :
            GetSchedulesSettled(t, resp)
    \/ \E t \in Tasks : SaveSchedulesDone(t)
    \/ \E t \in Tasks : GetPreviousDone(t)
    \/ \E t \in Tasks : \E shown \in ShowNotificationOutcomes : NotifyStreamsDone(t, shown)
    \/ \E t \in Tasks : SaveNotifiedDone(t)
    \/ \E t \in Tasks : \E shown \in ShowNotificationOutcomes : RemindDone(t, shown)
    \/ \E t \in Tasks : SaveRemindedDone(t)
    \/ PreviousWriteLands
    \/ Tick

Spec == BgInit /\ [][Next]_vars

(***************************************************************************)
(* Properties of the background service (Spec).                            *)
(***************************************************************************)
\* the invocations of fetchStreamData that are suspended inside a cycle
InFlight == {t \in Tasks : pc[t] # "idle"}

\* this step handles a poll request that finds a poll in flight
SkippedRequest == polls' = polls + 1 /\ isUpdating

\* this step ends a cycle in the catch block: the stream fetch rejected
FailureStep == \E t \in Tasks : pc[t] = "getStreams" /\ pc'[t] = "idle"

\* this step ends a cycle at the end of the try block
SuccessStep ==
    \E t \in Tasks : pc[t] \notin {"idle", "getStreams"} /\ pc'[t] = "idle"

\* C1: at most one poll cycle is in flight and it holds the busy flag; a
\* poll request that finds the flag set starts nothing, leaves the attempt
\* counter alone and is neither queued nor retried
C1_AtMostOnePollInFlight ==
    [][/\ Cardinality(InFlight') <= 1
       /\ InFlight' # {} => isUpdating'
       /\ SkippedRequest =>
            /\ pc' = pc
            /\ loc' = loc
            /\ updateAttempts' = updateAttempts
            /\ isUpdating'
            /\ Len(retryTimers') <= Len(retryTimers)
            /\ dataVars' = dataVars]_vars

\* C1 witness: two requests were handled, the first started the cycle that
\* is still waiting for its streams, the second was skipped
C1_Witness ==
    /\ polls = 2
    /\ pc[1] = "getStreams"
    /\ isUpdating
    /\ updateAttempts = 0
    /\ lastUpdateTime = NoTime
    /\ retryTimers = <<>>

\* C2: a failed cycle adds exactly 1 to the attempt counter and schedules
\* one retry, 30 seconds ahead, exactly when the new value is below 3
C2_FailureCountsAndRetries ==
    [][FailureStep =>
         /\ updateAttempts' = updateAttempts + 1
         /\ IF updateAttempts' < 3
            THEN retryTimers' = Append(retryTimers, now + 30000)
            ELSE retryTimers' = retryTimers]_vars

\* C2 witness: the first failure took the counter from 0 to 1 and left one
\* retry pending, due 30 seconds after the failure
C2_Witness ==
    /\ polls = 1
    /\ updateAttempts = 1
    /\ retryTimers = <<now + 30000>>
    /\ ~isUpdating
    /\ badge = "!"

\* C3: the third consecutive failed cycle schedules no retry, clears the
\* busy flag and resets the attempt counter to 0
C3_ThirdFailureResets ==
    [][(FailureStep /\ updateAttempts = 2) =>
         /\ retryTimers' = retryTimers
         /\ ~isUpdating'
         /\ updateAttempts' = 0]_vars

\* C4: a cycle that completes successfully leaves the attempt counter at 0,
\* the last-success timestamp at the completion time and the busy flag
\* cleared
C4_SuccessResets ==
    [][SuccessStep =>
         /\ updateAttempts' = 0
         /\ lastUpdateTime' = now'
         /\ ~isUpdating']_vars

\* C4 witness: two failed cycles, then time passed and the third cycle
\* succeeded
C4_Witness ==
    /\ polls = 3
    /\ Len(retryTimers) >= 1
    /\ updateAttempts = 0
    /\ lastUpdateTime = TickMs
    /\ now = TickMs
    /\ ~isUpdating
    /\ InFlight = {}

\* C5: no schedule gets more than one reminder notification
C5_OneReminderPerSchedule ==
    \A k \in ScheduleKeys : reminded[k] <= 1

\* C6: no stream gets more than one 'went live' notification
C6_OneLiveNotificationPerStream ==
    \A k \in StreamKeys : liveNotified[k] <= 1

\* the stored list holds an entry with key k and the given notified flag
StoredWith(list, k, flag) ==
    \E j \in 1..Len(list) : Key(list[j]) = k /\ list[j].notified = flag

\* C7: a key stored with notified = true is never stored with notified =
\* false afterwards, in the stream snapshot or in the schedule snapshot
C7_NotifiedNeverCleared ==
    [][/\ \A k \in StreamKeys :
            StoredWith(stStreams, k, TRUE) => ~StoredWith(stStreams', k, FALSE)
       /\ \A k \in ScheduleKeys :
            StoredWith(stSchedules, k, TRUE)
                => ~StoredWith(stSchedules', k, FALSE)]_vars

(***************************************************************************)
(* Properties of the aggregator (SpecAgg).                                 *)
(***************************************************************************)
\* the call has returned to its caller
AggReturned == aggState \in {"resolved", "rejected"}

\* the answer the client of request index i gave, if it was asked
AnswerOf(i) ==
    LET at == {k \in 1..Len(aggArrival) : aggArrival[k].index = i}
    IN  IF at = {} THEN Rejected ELSE aggArrival[CHOOSE k \in at : TRUE].response

\* request index i was answered by its client with a list of items
Succeeded(i) == AnswerOf(i).status = "fulfilled"

\* request index i could be handed to a client at all
Askable(i) ==
    /\ apiClients[aggPlatforms[i]].registered
    /\ aggKind = "schedules" => apiClients[aggPlatforms[i]].hasGetSchedules

\* the items of the platforms that succeeded, platform-major in request order
ExpectedItems ==
    Concat([i \in 1..Len(aggPlatforms) |-> AnswerOf(i).value])

\* C8: the call returns only after every requested platform has settled, and
\* a resolved call returns exactly the items of the platforms that succeeded,
\* in request order and per-platform response order, whatever the order in
\* which the responses arrived
C8_SettleAllInOrder ==
    AggReturned =>
        /\ \A i \in 1..Len(aggPlatforms) :
              Askable(i) => \E k \in 1..Len(aggArrival) : aggArrival[k].index = i
        /\ aggState = "resolved" => aggValue = ExpectedItems

\* C8 witness: two platforms answered in the reverse of the request order,
\* the first failed after the second had delivered items, and the call
\* resolved with the second platform's items
C8_Witness ==
    /\ aggState = "resolved"
    /\ Len(aggPlatforms) = 2
    /\ Len(aggArrival) = 2
    /\ aggArrival[1].index = 2
    /\ Len(aggArrival[1].response.value) = 2
    /\ aggArrival[2].response.status = "rejected"
    /\ aggValue = aggArrival[1].response.value

\* C9: for a non-empty request the call rejects exactly when every requested
\* platform failed (fetch error, no client, no getSchedules support);
\* otherwise it resolves with the successful subset
C9_RejectsIffAllFailed ==
    (AggReturned /\ Len(aggPlatforms) > 0) =>
        /\ aggState = "rejected" <=>
              \A i \in 1..Len(aggPlatforms) : ~Succeeded(i)
        /\ aggState = "resolved" => aggValue = ExpectedItems

\* C9 witness: a schedules call resolved although one platform has no
\* getSchedules support
C9_Witness ==
    /\ aggState = "resolved"
    /\ aggKind = "schedules"
    /\ Len(aggPlatforms) = 2
    /\ \E i \in 1..2 : /\ apiClients[aggPlatforms[i]].registered
                        /\ ~apiClients[aggPlatforms[i]].hasGetSchedules
    /\ \E i \in 1..2 : Succeeded(i) /\ Len(AnswerOf(i).value) > 0

\* C9 witness of the other direction: every platform failed, one of them for
\* lack of a client, and the call rejected
C9_WitnessReject ==
    /\ aggState = "rejected"
    /\ Len(aggPlatforms) = 2
    /\ \E i \in 1..2 : ~apiClients[aggPlatforms[i]].registered
    /\ Len(aggArrival) = 1

\* number of reports to the ErrorManager that carry source p
ReportsFor(p) == Cardinality({j \in 1..Len(errorLog) : errorLog[j].source = p})

\* C10: after a partial failure there is exactly one error report per failed
\* platform, tagged with that platform, and none for a platform that
\* succeeded
C10_OneErrorPerFailedPlatform ==
    (aggState = "resolved" /\ \E i \in 1..Len(aggPlatforms) : ~Succeeded(i)) =>
        /\ \A i \in 1..Len(aggPlatforms) :
              ReportsFor(aggPlatforms[i]) = IF Succeeded(i) THEN 0 ELSE 1
        /\ Len(errorLog) =
              Cardinality({i \in 1..Len(aggPlatforms) : ~Succeeded(i)})

\* C10 witness: A succeeded with 2 streams, B failed; A's 2 streams are
\* returned and there is exactly one report, for B
C10_Witness ==
    /\ aggState = "resolved"
    /\ aggKind = "streams"
    /\ Len(aggPlatforms) = 2
    /\ Succeeded(1) /\ Len(AnswerOf(1).value) = 2
    /\ ~Succeeded(2)
    /\ aggValue = AnswerOf(1).value
    /\ Len(errorLog) = 1
    /\ errorLog[1].source = aggPlatforms[2]

(***************************************************************************)
(* The delta detection filters applied to given snapshots (SpecDelta):     *)
(* the newStreams filter of checkForNewStreamsAndReminders and the         *)
(* schedulesToRemind filter of checkScheduleReminders.                     *)
(***************************************************************************)
\* all sequences over S of length at most n
SeqsUpTo(S, n) == UNION {[1..k -> S] : k \in 0..n}

\* a stream with the fields the filter reads and one it does not (title)
TitledStream(p, i, title, favorite, wasNotified) ==
    [platformType |-> p, id |-> i, title |-> title,
     isFavorite |-> favorite, notified |-> wasNotified]

DeltaKeys == {<<"twitch", "1">>, <<"youtube", "1">>, <<"twitch", "2">>}

\* streams of the current snapshot: as fetched (no flag set), a favorite,
\* and one already marked notified
CurrentChoices ==
    {TitledStream(k[1], k[2], "a", f[1], f[2]) :
        k \in DeltaKeys, f \in {<<FALSE, FALSE>>, <<TRUE, FALSE>>, <<FALSE, TRUE>>}}

\* streams of the previous snapshot: the same keys, the title changed or not
PreviousChoices ==
    {TitledStream(k[1], k[2], "b", FALSE, FALSE) : k \in DeltaKeys}
    \cup {TitledStream("twitch", "1", "a", FALSE, FALSE)}

\* the clock and the schedule start times around the reminder threshold
Minute == 60 * 1000

DeltaNow == 20 * Minute

\* no start time (0), past, now, and 4, 5, 6, 9, 10, 11 minutes ahead
StartChoices ==
    {0, DeltaNow - 10 * Minute, DeltaNow} \cup
    {DeltaNow + m * Minute : m \in {4, 5, 6, 9, 10, 11}}

ScheduleChoices ==
    {[Schedule("twitch", "1", start) EXCEPT !.notified = n] :
        start \in StartChoices, n \in BOOLEAN}

\* reminderTime as new Settings(data) leaves it: never 0
ReminderTimes == {5, 10}

DeltaSettings(onlyFavorites, minutes) ==
    [SettingsWith({"twitch"}, TRUE, onlyFavorites, TRUE)
        EXCEPT !.reminderTime = minutes]

DeltaInit ==
    /\ apiClients = BackgroundClients
    /\ AggQuiet
    /\ BgQuiet
    /\ settings = SettingsWith({"twitch"}, TRUE, FALSE, TRUE)
    /\ alarm = PeriodicAlarm(settings)
    /\ dOut = [done |-> FALSE, result |-> <<>>]
    /\ NotifQuiet
    /\ CompQuiet
    /\ \/ \E current \in SeqsUpTo(CurrentChoices, MaxSnapshot) :
            \E previous \in SeqsUpTo(PreviousChoices, MaxSnapshot) :
               \E onlyFavorites \in BOOLEAN :
                  dIn = [op |-> "detect", current |-> current,
                         previous |-> previous,
                         settings |-> DeltaSettings(onlyFavorites, 10)]
       \/ \E schedules \in SeqsUpTo(ScheduleChoices, MaxSnapshot) :
            \E minutes \in ReminderTimes :
               dIn = [op |-> "remind", schedules |-> schedules,
                      time |-> DeltaNow,
                      settings |-> DeltaSettings(FALSE, minutes)]

\* lines 272-283 applied to (currentStreams, previousStreamsRaw)
DetectNewStreams ==
    /\ dIn.op = "detect"
    /\ ~dOut.done
    /\ dOut' = [done |-> TRUE,
                result |-> NewStreams(dIn.current, dIn.previous, dIn.settings)]
    /\ UNCHANGED <<dIn, aggVars, bgVars, nmVars, compVars>>

\* lines 374-387 applied to dataManager.schedules at the time `now`
DetectReminders ==
    /\ dIn.op = "remind"
    /\ ~dOut.done
    /\ dOut' = [done |-> TRUE,
                result |-> SchedulesToRemind(dIn.schedules, dIn.time,
                                             dIn.settings)]
    /\ UNCHANGED <<dIn, aggVars, bgVars, nmVars, compVars>>

DeltaNext == DetectNewStreams \/ DetectReminders

SpecDelta == DeltaInit /\ [][DeltaNext]_vars

(***************************************************************************)
(* Properties of the delta detection filters (SpecDelta).                  *)
(***************************************************************************)
\* the indexes of the list whose element is in the result
InResult(list, j) == \E k \in 1..Len(dOut.result) : dOut.result[k] = list[j]

\* some stream of the previous snapshot has the same (platformType, id)
SeenBefore(c) ==
    \E j \in 1..Len(dIn.previous) :
        /\ dIn.previous[j].platformType = c.platformType
        /\ dIn.previous[j].id = c.id

\* the result holds elements of the list only, in the order of the list
IsSubSeqOf(result, list) ==
    \E f \in [1..Len(result) -> 1..Len(list)] :
        /\ \A k \in 1..Len(result) : result[k] = list[f[k]]
        /\ \A k \in 1..Len(result), m \in 1..Len(result) : k < m => f[k] < f[m]

\* C11 as stated: a fetched stream (no flag set) is detected as new exactly
\* when no stream of the previous snapshot has its (platformType, id)
C11_NewIffKeyAbsent ==
    (dIn.op = "detect" /\ dOut.done) =>
        \A j \in 1..Len(dIn.current) :
            (~dIn.current[j].isFavorite /\ ~dIn.current[j].notified) =>
                (InResult(dIn.current, j) <=> ~SeenBefore(dIn.current[j]))

\* C11 amended: a stream of the current snapshot is detected as new exactly
\* when its notified flag is not set, it passes the favorites filter
\* (notifyOnlyFavorites off, or the stream is a favorite) and no stream of the
\* previous snapshot has its (platformType, id); the selection reads nothing
\* else (neither title nor position) and keeps the order of the snapshot
C11_NewIffEligibleAndKeyAbsent ==
    (dIn.op = "detect" /\ dOut.done) =>
        /\ \A j \in 1..Len(dIn.current) :
              InResult(dIn.current, j) <=>
                  /\ ~dIn.current[j].notified
                  /\ dIn.settings.notifyOnlyFavorites
                        => dIn.current[j].isFavorite
                  /\ ~SeenBefore(dIn.current[j])
        /\ IsSubSeqOf(dOut.result, dIn.current)

\* C11 witness: (twitch, 1) was seen before under another title and is left
\* out; (youtube, 1), same id on another platform, is detected as new
C11_Witness ==
    /\ dIn.op = "detect"
    /\ dOut.done
    /\ ~dIn.settings.notifyOnlyFavorites
    /\ dIn.current = <<TitledStream("twitch", "1", "a", FALSE, FALSE),
                       TitledStream("youtube", "1", "a", FALSE, FALSE)>>
    /\ dIn.previous = <<TitledStream("twitch", "1", "b", FALSE, FALSE)>>
    /\ dOut.result = <<TitledStream("youtube", "1", "a", FALSE, FALSE)>>

IdTokens(id) == IF id = "7_live" THEN <<"7", "_", "live">> ELSE <<id>>

\* `${prefix}_${platformType}_${id}`
NotificationId(prefix, e) ==
    <<prefix, "_", e.platformType, "_">> \o IdTokens(e.id)

\* the settings handed to initialize / updateSettings
NmSettingsChoices ==
    {NmSettingsWith(TRUE, FALSE, TRUE), NmSettingsWith(FALSE, FALSE, TRUE),
     NmSettingsWith(TRUE, TRUE, TRUE), NmSettingsWith(TRUE, FALSE, FALSE)}

\* the streams and schedules handed to the notify calls: the same id on two
\* platforms; as fetched, favorite, or already flagged notified
NmPlatforms == {"twitch", "youtube"}

NmStreamChoices ==
    {[Stream(q, "1") EXCEPT !.isFavorite = f[1], !.notified = f[2]] :
        q \in NmPlatforms,
        f \in {<<FALSE, FALSE>>, <<TRUE, FALSE>>, <<FALSE, TRUE>>}}

NmScheduleChoices ==
    {[Schedule(q, "1", ScheduleStart) EXCEPT !.notified = n] :
        q \in NmPlatforms, n \in BOOLEAN}

NmIds == {"1"}

\* lines 55 / 112: this.notified...Ids.has(obj.id) || obj.notified
AlreadyNotified_flagOnly(ids, e) == e.notified

AlreadyNotified(ids, e) == e.id \in ids \/ e.notified

\* lines 55-67: the skip conditions of notifyNewStream
StreamSkipped_noFavorites(ids, s, e) ==
    \/ AlreadyNotified(ids, e)
    \/ ~s.present \/ ~s.enableNotifications

StreamSkipped(ids, s, e) ==
    \/ AlreadyNotified(ids, e)
    \/ ~s.present \/ ~s.enableNotifications
    \/ s.notifyOnlyFavorites /\ ~e.isFavorite

\* lines 112-119: the skip conditions of notifyScheduleReminder
ScheduleSkipped(ids, s, e) ==
    \/ AlreadyNotified(ids, e)
    \/ ~s.present \/ ~s.enableNotifications \/ ~s.reminders

NotifiedIds(kind) ==
    IF kind = "stream" THEN notifiedStreamIds ELSE notifiedScheduleIds

Event(type, payload) == [type |-> type, payload |-> payload]

\* the snapshot DataManager has persisted while the manager is in use
NotifStored ==
    /\ dmStreams = <<Stream("twitch", "1"), Stream("youtube", "1")>>
    /\ stStreams = dmStreams
    /\ dmSchedules = <<Schedule("twitch", "1", ScheduleStart),
                       Schedule("youtube", "1", ScheduleStart)>>
    /\ stSchedules = dmSchedules
    /\ stPrevious = <<>>

NotifInit ==
    /\ apiClients = BackgroundClients
    /\ AggQuiet
    /\ BgIdle
    /\ NotifStored
    /\ DeltaQuiet
    /\ NotifQuiet
    /\ settings = SettingsWith({"twitch", "youtube"}, TRUE, FALSE, TRUE)
    /\ alarm = PeriodicAlarm(settings)
    /\ CompQuiet

\* what no operation of the NotificationManager touches
NmOutside == <<aggVars, bgVars, deltaVars, compVars>>

\* initialize(settings), lines 22-32; background.js calls it with no argument
NmInitialize(s) ==
    /\ nmSettings' = s
    /\ nmEmitted' = <<Event("notification:initialized", NoEntity)>>
    /\ UNCHANGED <<notifiedStreamIds, notifiedScheduleIds, nmPending,
                   osNotifications, nmCall, nmCalls, nmSucceeded, NmOutside>>

\* updateSettings(settings), lines 38-44, handed a full settings object
NmUpdateSettings(s) ==
    /\ s.present
    /\ nmSettings' = s
    /\ nmEmitted' = <<Event("notification:settingsUpdated", s)>>
    /\ UNCHANGED <<notifiedStreamIds, notifiedScheduleIds, nmPending,
                   osNotifications, nmCall, nmCalls, nmSucceeded, NmOutside>>

\* notifyNewStream / notifyScheduleReminder from the call to the first
\* await: a skip condition returns null at once, otherwise the notification
\* is requested and the call suspends
NotifyBegin(kind, e) ==
    /\ nmCalls < MaxCalls
    /\ nmCalls' = nmCalls + 1
    /\ nmEmitted' = <<>>
    /\ LET skipped == IF kind = "stream"
                      THEN StreamSkipped(notifiedStreamIds, nmSettings, e)
                      ELSE ScheduleSkipped(notifiedScheduleIds, nmSettings, e)
           call == [kind |-> kind, entity |-> e,
                    outcome |-> IF skipped THEN "skipped" ELSE "waiting",
                    result |-> NullId]
       IN  /\ nmCall' = call
           /\ nmPending' = IF skipped THEN nmPending
                           ELSE Append(nmPending, call)
    /\ UNCHANGED <<nmSettings, notifiedStreamIds, notifiedScheduleIds,
                   osNotifications, nmSucceeded, NmOutside>>

\* chrome.notifications.create calls back (lines 86-92 / 140-146), or the
\* request threw and the catch block runs (lines 93-100 / 147-154)
NotifySettle(i, created) ==
    /\ i \in 1..Len(nmPending)
    /\ nmPending' = SubSeq(nmPending, 1, i - 1)
                    \o SubSeq(nmPending, i + 1, Len(nmPending))
    /\ LET call == nmPending[i]
           e == call.entity
           notificationId == NotificationId(call.kind, e)
       IN  IF created
           THEN /\ osNotifications' = osNotifications \cup {notificationId}
                /\ notifiedStreamIds' =
                     IF call.kind = "stream"
                     THEN notifiedStreamIds \cup {e.id} ELSE notifiedStreamIds
                /\ notifiedScheduleIds' =
                     IF call.kind = "schedule"
                     THEN notifiedScheduleIds \cup {e.id}
                     ELSE notifiedScheduleIds
                /\ nmEmitted' =
                     <<Event(IF call.kind = "stream"
                             THEN "notification:streamNotified"
                             ELSE "notification:scheduleNotified", e)>>
                /\ nmCall' = [call EXCEPT !.outcome = "created",
                                          !.result = notificationId]
                /\ nmSucceeded' = nmSucceeded \cup {<<call.kind, Key(e)>>}
           ELSE /\ nmEmitted' = <<Event("error", NoEntity)>>
                /\ nmCall' = [call EXCEPT !.outcome = "failed"]
                /\ UNCHANGED <<osNotifications, notifiedStreamIds,
                               notifiedScheduleIds, nmSucceeded>>
    /\ UNCHANGED <<nmSettings, nmCalls, NmOutside>>

\* resetStreamNotification(streamId), lines 249-251
NmResetStream(id) ==
    /\ notifiedStreamIds' = notifiedStreamIds \ {id}
    /\ nmSucceeded' = {k \in nmSucceeded : ~(k[1] = "stream" /\ k[2][2] = id)}
    /\ nmEmitted' = <<>>
    /\ UNCHANGED <<nmSettings, notifiedScheduleIds, nmPending, osNotifications,
                   nmCall, nmCalls, NmOutside>>

\* resetScheduleNotification(scheduleId), lines 257-259
NmResetSchedule(id) ==
    /\ notifiedScheduleIds' = notifiedScheduleIds \ {id}
    /\ nmSucceeded' = {k \in nmSucceeded : ~(k[1] = "schedule" /\ k[2][2] = id)}
    /\ nmEmitted' = <<>>
    /\ UNCHANGED <<nmSettings, notifiedStreamIds, nmPending, osNotifications,
                   nmCall, nmCalls, NmOutside>>

\* clearAllNotificationHistory(), lines 239-243
NmClearAll ==
    /\ notifiedStreamIds' = {}
    /\ notifiedScheduleIds' = {}
    /\ nmSucceeded' = {}
    /\ nmEmitted' = <<Event("notification:historyCleared", NoEntity)>>
    /\ UNCHANGED <<nmSettings, nmPending, osNotifications, nmCall, nmCalls,
                   NmOutside>>

NotifNext ==
    \/ \E s \in NmSettingsChoices \cup {NoSettings} : NmInitialize(s)
    \/ \E s \in NmSettingsChoices : NmUpdateSettings(s)
    \/ \E e \in NmStreamChoices : NotifyBegin("stream", e)
    \/ \E e \in NmScheduleChoices : NotifyBegin("schedule", e)
    \/ \E i \in 1..Len(nmPending) : \E created \in BOOLEAN :
          NotifySettle(i, created)
    \/ \E id \in NmIds : NmResetStream(id)
    \/ \E id \in NmIds : NmResetSchedule(id)
    \/ NmClearAll

SpecNotif == NotifInit /\ [][NotifNext]_vars

(***************************************************************************)
(* Properties of the NotificationManager (SpecNotif).                      *)
(***************************************************************************)
\* this step is a call of notifyNewStream or notifyScheduleReminder
NotifyCalled ==
    nmCalls' = nmCalls + 1 /\ nmCall'.kind \in {"stream", "schedule"}

\* this step is the return of a call that was waiting for its notification
NotifyReturned == Len(nmPending') < Len(nmPending)

\* the call of this step neither requested a notification nor changed anything
NoOpCall ==
    /\ nmCall'.outcome = "skipped"
    /\ nmCall'.result = NullId
    /\ nmPending' = nmPending
    /\ osNotifications' = osNotifications
    /\ nmEmitted' = <<>>
    /\ notifiedStreamIds' = notifiedStreamIds
    /\ notifiedScheduleIds' = notifiedScheduleIds

\* C13: once a notify call has succeeded for identity key K, every later
\* call for K returns null and requests no notification, until a reset or
\* clearAllNotificationHistory removes K
C13_NoSecondNotification ==
    [][(NotifyCalled /\ <<nmCall'.kind, Key(nmCall'.entity)>> \in nmSucceeded)
          => /\ nmCall'.outcome = "skipped"
             /\ nmCall'.result = NullId
             /\ nmPending' = nmPending
             /\ osNotifications' = osNotifications]_vars

\* C13 witness: a second call for a key that succeeded before, with
\* notifications on and the entity's own flag not set, was answered null
C13_Witness ==
    /\ nmCalls = 2
    /\ nmCall.outcome = "skipped"
    /\ nmCall.kind = "schedule"
    /\ ~nmCall.entity.notified
    /\ <<"schedule", Key(nmCall.entity)>> \in nmSucceeded
    /\ nmSettings = NmSettingsWith(TRUE, FALSE, TRUE)
    /\ osNotifications = {NotificationId("schedule", nmCall.entity)}

\* C14: a call made while a skip condition holds (key in the notified set or
\* own notified flag set; notifications disabled; streams: notifyOnlyFavorites
\* and not a favorite; schedules: reminders disabled) returns null, creates
\* no notification, emits no event and leaves the notified sets unchanged
C14_SkipIsNoOp ==
    [][NotifyCalled =>
         LET e == nmCall'.entity
             kind == nmCall'.kind
         IN  (\/ e.id \in NotifiedIds(kind)
              \/ e.notified
              \/ ~nmSettings.present
              \/ ~nmSettings.enableNotifications
              \/ kind = "stream" /\ nmSettings.notifyOnlyFavorites
                                 /\ ~e.isFavorite
              \/ kind = "schedule" /\ ~nmSettings.reminders)
             => NoOpCall]_vars

\* C14 witness: notifyOnlyFavorites is on and a stream that is no favorite,
\* not flagged and not in the notified set was skipped
C14_Witness ==
    /\ nmCall.kind = "stream"
    /\ nmCall.outcome = "skipped"
    /\ nmSettings = NmSettingsWith(TRUE, TRUE, TRUE)
    /\ ~nmCall.entity.isFavorite
    /\ ~nmCall.entity.notified
    /\ notifiedStreamIds = {}
    /\ osNotifications = {}
    /\ nmCalls = 1

\* C15: a call that passed the skip conditions and whose notification was
\* created returns stream_{platformType}_{id} / schedule_{platformType}_{id},
\* has the key in the notified set, has set the entity's persisted notified
\* flag, and emitted exactly one notified event carrying the entity
C15_SuccessMarksNotified ==
    [][(NotifyReturned /\ nmCall'.outcome = "created") =>
         LET e == nmCall'.entity
             kind == nmCall'.kind
         IN  /\ nmCall'.result = <<kind, "_", e.platformType, "_", e.id>>
             /\ osNotifications' = osNotifications \cup {nmCall'.result}
             /\ e.id \in (IF kind = "stream" THEN notifiedStreamIds'
                          ELSE notifiedScheduleIds')
             /\ nmEmitted' =
                  <<Event(IF kind = "stream" THEN "notification:streamNotified"
                          ELSE "notification:scheduleNotified", e)>>
             /\ StoredWith(IF kind = "stream" THEN stStreams' ELSE stSchedules',
                           Key(e), TRUE)]_vars

\* C16: deduplication is by (platformType, id): a call is skipped only when
\* its own key was notified before, its own flag is set, or the settings say
\* so, never because the same id was notified on another platform
C16_DedupByFullKey ==
    [][(NotifyCalled /\ nmCall'.outcome = "skipped") =>
         LET e == nmCall'.entity
             kind == nmCall'.kind
         IN  \/ <<kind, Key(e)>> \in nmSucceeded
             \/ e.notified
             \/ ~nmSettings.present
             \/ ~nmSettings.enableNotifications
             \/ kind = "stream" /\ nmSettings.notifyOnlyFavorites
                                /\ ~e.isFavorite
             \/ kind = "schedule" /\ ~nmSettings.reminders]_vars

(***************************************************************************)
(* NotificationManager: routing of clicks (SpecClick).  A notification id  *)
(* is the sequence of its pieces, "_" being a piece of its own.            *)
(***************************************************************************)
\* notificationId.startsWith(prefix + '_')
StartsWith(id, prefix) ==
    Len(id) >= 2 /\ id[1] = prefix /\ id[2] = "_"

\* notificationId.split('_')
Split(id) == SelectSeq(id, LAMBDA piece : piece # "_")

\* an element of the destructured array; undefined when there is none
Field(fields, k) == IF k <= Len(fields) THEN fields[k] ELSE "undefined"

\* the branch a clicked id takes (lines 268-285 / 298-321)
ClickRoute_customDefault(id) ==
    IF StartsWith(id, "stream") THEN "stream"
    ELSE IF StartsWith(id, "schedule") THEN "schedule"
    ELSE "custom"

ClickRoute(id) ==
    IF StartsWith(id, "stream") THEN "stream"
    ELSE IF StartsWith(id, "schedule") THEN "schedule"
    ELSE IF StartsWith(id, "custom") THEN "custom"
    ELSE "none"

\* button indexes chrome reports (a notification has at most two buttons)
ButtonIndexes == {0, 1}

NoButton == -1

\* the payload the handlers build for a click (button = NoButton) or a
\* button click
ClickPayload(id, button) ==
    LET fields == Split(id)
        entity == IF ClickRoute(id) = "stream"
                  THEN [platformType |-> Field(fields, 2),
                        streamId |-> Field(fields, 3)]
                  ELSE IF ClickRoute(id) = "schedule"
                  THEN [platformType |-> Field(fields, 2),
                        scheduleId |-> Field(fields, 3)]
                  ELSE [notificationId |-> id]
    IN  IF button = NoButton THEN entity
        ELSE entity @@ [buttonIndex |-> button]

ClickEventType(route, button) ==
    IF button = NoButton
    THEN IF route = "stream" THEN "notification:streamClicked"
         ELSE IF route = "schedule" THEN "notification:scheduleClicked"
         ELSE "notification:customClicked"
    ELSE IF route = "stream" THEN "notification:streamButtonClicked"
         ELSE IF route = "schedule" THEN "notification:scheduleButtonClicked"
         ELSE "notification:customButtonClicked"

\* the events one click emits
ClickEvents(id, button) ==
    IF ClickRoute(id) = "none" THEN <<>>
    ELSE <<Event(ClickEventType(ClickRoute(id), button),
                 ClickPayload(id, button))>>

\* `error_${Date.now()}` / `custom_${Date.now()}`
TimestampId(prefix) == <<prefix, "_", ToString(now)>>

\* streams and schedules notified about: a twitch id, and the id the
\* twitcasting client builds from a user id (`${liveData.user.id}_live`)
ClickStreamChoices ==
    {Stream("twitch", "12345"), Stream("twitcasting", "7_live")}

ClickScheduleChoices == {Schedule("twitch", "12345", ScheduleStart)}

\* the manager after initialize(settings) registered its click listeners
ClickInit ==
    /\ apiClients = BackgroundClients
    /\ AggQuiet
    /\ BgIdle
    /\ NotifStored
    /\ DeltaQuiet
    /\ nmSettings = NmSettingsWith(TRUE, FALSE, TRUE)
    /\ notifiedStreamIds = {}
    /\ notifiedScheduleIds = {}
    /\ nmPending = <<>>
    /\ osNotifications = {}
    /\ nmEmitted = <<Event("notification:initialized", NoEntity)>>
    /\ nmCall = NoCall
    /\ nmCalls = 0
    /\ nmSucceeded = {}
    /\ settings = SettingsWith({"twitch", "youtube"}, TRUE, FALSE, TRUE)
    /\ alarm = PeriodicAlarm(settings)
    /\ CompQuiet

\* notifyError / showCustomNotification from the call to the await
\* (lines 162-175 / 194-207)
ShowBegin(kind) ==
    /\ nmCalls < MaxCalls
    /\ nmCalls' = nmCalls + 1
    /\ nmEmitted' = <<>>
    /\ LET call == [kind |-> kind, entity |-> NoEntity,
                    outcome |-> "waiting", result |-> TimestampId(kind)]
       IN  /\ nmCall' = call
           /\ nmPending' = Append(nmPending, call)
    /\ UNCHANGED <<nmSettings, notifiedStreamIds, notifiedScheduleIds,
                   osNotifications, nmSucceeded, NmOutside>>

\* chrome.notifications.create calls back and the id is returned, or the
\* request threw: notifyError logs to the console (lines 178-181),
\* showCustomNotification emits an error event (lines 210-217)
ShowSettle(i, created) ==
    /\ i \in 1..Len(nmPending)
    /\ nmPending[i].kind \in {"error", "custom"}
    /\ nmPending' = SubSeq(nmPending, 1, i - 1)
                    \o SubSeq(nmPending, i + 1, Len(nmPending))
    /\ LET call == nmPending[i]
       IN  IF created
           THEN /\ osNotifications' = osNotifications \cup {call.result}
                /\ nmEmitted' = <<>>
                /\ nmCall' = [call EXCEPT !.outcome = "created"]
           ELSE /\ UNCHANGED osNotifications
                /\ nmEmitted' = IF call.kind = "custom"
                                THEN <<Event("error", NoEntity)>> ELSE <<>>
                /\ nmCall' = [call EXCEPT !.outcome = "failed",
                                          !.result = NullId]
    /\ UNCHANGED <<nmSettings, notifiedStreamIds, notifiedScheduleIds,
                   nmCalls, nmSucceeded, NmOutside>>

\* onNotificationClicked(id) (button = NoButton, lines 266-288) and
\* onNotificationButtonClicked(id, button) (lines 296-325) for a displayed
\* notification: the event of the id's branch, then clearNotification(id)
NmClicked(id, button) ==
    /\ id \in osNotifications
    /\ nmEmitted' = ClickEvents(id, button)
    /\ osNotifications' = osNotifications \ {id}
    /\ nmCall' = [kind |-> IF button = NoButton THEN "click" ELSE "buttonClick",
                  entity |-> NoEntity, outcome |-> "cleared", result |-> id,
                  button |-> button]
    /\ UNCHANGED <<nmSettings, notifiedStreamIds, notifiedScheduleIds,
                   nmPending, nmCalls, nmSucceeded, NmOutside>>

ClickNext ==
    \/ \E e \in ClickStreamChoices : NotifyBegin("stream", e)
    \/ \E e \in ClickScheduleChoices : NotifyBegin("schedule", e)
    \/ \E i \in 1..Len(nmPending) : \E created \in BOOLEAN :
          /\ nmPending[i].kind \in {"stream", "schedule"}
          /\ NotifySettle(i, created)
    \/ \E kind \in {"error", "custom"} : ShowBegin(kind)
    \/ \E i \in 1..Len(nmPending) : \E created \in BOOLEAN :
          ShowSettle(i, created)
    \/ \E id \in osNotifications : NmClicked(id, NoButton)
    \/ \E id \in osNotifications : \E button \in ButtonIndexes :
          NmClicked(id, button)
    \/ NmClearAll

SpecClick == ClickInit /\ [][ClickNext]_vars

(***************************************************************************)
(* Properties of click routing (SpecClick).                                *)
(***************************************************************************)
\* this step handles a click (button = NoButton) or a button click on id
ClickHandled(id, button) ==
    /\ id \in osNotifications
    /\ nmCall' = [kind |-> IF button = NoButton THEN "click" ELSE "buttonClick",
                  entity |-> NoEntity, outcome |-> "cleared", result |-> id,
                  button |-> button]

\* the event the claim expects for a click on the notification of entity e
ExpectedClickEvent(kind, e, button) ==
    LET entity == IF kind = "stream"
                  THEN [platformType |-> e.platformType, streamId |-> e.id]
                  ELSE [platformType |-> e.platformType, scheduleId |-> e.id]
    IN  Event(ClickEventType(kind, button),
              IF button = NoButton THEN entity
              ELSE entity @@ [buttonIndex |-> button])

\* C18: a click or button click on the notification generated for a
\* stream or schedule with platformType p and id i emits the kind-specific
\* event carrying exactly p and i, and the notification is cleared
C18_ClickCarriesEntity ==
    [][\A button \in ButtonIndexes \cup {NoButton} :
         /\ \A e \in ClickStreamChoices :
               ClickHandled(NotificationId("stream", e), button)
               => /\ nmEmitted' = <<ExpectedClickEvent("stream", e, button)>>
                  /\ NotificationId("stream", e) \notin osNotifications'
         /\ \A e \in ClickScheduleChoices :
               ClickHandled(NotificationId("schedule", e), button)
               => /\ nmEmitted' = <<ExpectedClickEvent("schedule", e, button)>>
                  /\ NotificationId("schedule", e) \notin osNotifications'
      ]_vars

\* ids a notification of the manager can carry
ClickIds ==
    {NotificationId("stream", e) : e \in ClickStreamChoices}
    \cup {NotificationId("schedule", e) : e \in ClickScheduleChoices}
    \cup {TimestampId(prefix) : prefix \in {"error", "custom"}}

\* the custom event of a click or button click on id
CustomClickEvent(id, button) ==
    Event(ClickEventType("custom", button),
          IF button = NoButton THEN [notificationId |-> id]
          ELSE [notificationId |-> id, buttonIndex |-> button])

\* C19 as stated: a click or button click on an id that starts with
\* neither stream_ nor schedule_ emits the generic custom event, and the
\* notification is cleared
C19_UnrecognizedPrefixIsCustom ==
    [][\A id \in ClickIds : \A button \in ButtonIndexes \cup {NoButton} :
          (/\ ClickHandled(id, button)
           /\ ~StartsWith(id, "stream")
           /\ ~StartsWith(id, "schedule"))
          => /\ nmEmitted' = <<CustomClickEvent(id, button)>>
             /\ id \notin osNotifications'
      ]_vars

\* C19, amended: a click or button click on a custom_ id emits the custom
\* event carrying the notification id (and the button index); on an id
\* that starts with none of stream_, schedule_, custom_ (an error_ id) it
\* emits no event; in both cases the notification is cleared
C19_CustomPrefixOnlyIsCustom ==
    [][\A id \in ClickIds : \A button \in ButtonIndexes \cup {NoButton} :
          (/\ ClickHandled(id, button)
           /\ ~StartsWith(id, "stream")
           /\ ~StartsWith(id, "schedule"))
          => /\ nmEmitted' = IF StartsWith(id, "custom")
                             THEN <<CustomClickEvent(id, button)>>
                             ELSE <<>>
             /\ id \notin osNotifications'
      ]_vars

\* an error notification was clicked: nothing was emitted, and it is gone
C19_Witness ==
    /\ nmCall.kind \in {"click", "buttonClick"}
    /\ nmCall.result = TimestampId("error")
    /\ nmEmitted = <<>>
    /\ nmCall.result \notin osNotifications

(***************************************************************************)
(* The background service when twitch announces two schedules that are     *)
(* both due (SpecReminders): the reminder loop of checkScheduleReminders.  *)
(***************************************************************************)
RemindersInit ==
    /\ apiClients = ClientsAnnouncing(ScheduleIds)
    /\ AggQuiet
    /\ BgQuiet
    /\ settings = SettingsWith({"twitch"}, TRUE, FALSE, TRUE)
    /\ alarm = PeriodicAlarm(settings)
    /\ AuxQuiet

SpecReminders == RemindersInit /\ [][Next]_vars

\* invocation t waits for the reminder of a schedule that is not the last
\* one of its list
RemindersRemain(t) ==
    /\ pc[t] = "remind"
    /\ loc[t].idx < Len(loc[t].toRemind)

\* C17: a reminder notification that cannot be created does not keep the
\* remaining due reminders of the same poll cycle from being issued: while
\* due reminders remain, the invocation stays in its reminder loop
C17_RemainingRemindersIssued ==
    [][\A t \in Tasks :
          RemindersRemain(t) => pc'[t] \in {"remind", "saveReminded"}]_vars

(***************************************************************************)
(* The poll cycle under the assumption that what it awaits comes back      *)
(* (SpecLive): every platform request settles, every storage call          *)
(* completes and every notification call returns or throws.                *)
(***************************************************************************)
\* a platform request of a cycle in flight settles
RequestSettles ==
    \/ \E t \in Awaiting("getStreams") :
         \E resp \in AnswersTo("streams", loc[t].platforms) :
            GetStreamsSettled(t, resp)
    \/ \E t \in Awaiting("getSchedules") :
         \E resp \in AnswersTo("schedules",
                               ScheduleCapable(loc[t].platforms)) :
            GetSchedulesSettled(t, resp)

\* a storage call of a cycle in flight completes
StorageCompletes ==
    \/ \E t \in Tasks : SaveStreamsDone(t)
    \/ \E t \in Tasks : SaveSchedulesDone(t)
    \/ \E t \in Tasks : GetPreviousDone(t)
    \/ \E t \in Tasks : SaveNotifiedDone(t)
    \/ \E t \in Tasks : SaveRemindedDone(t)
    \/ PreviousWriteLands

\* a notification call of a cycle in flight returns or throws
NotificationReturns ==
    \/ \E t \in Tasks : \E shown \in ShowNotificationOutcomes :
          NotifyStreamsDone(t, shown)
    \/ \E t \in Tasks : \E shown \in ShowNotificationOutcomes :
          RemindDone(t, shown)

\* whatever a cycle in flight awaits comes back
AwaitedReturns == RequestSettles \/ StorageCompletes \/ NotificationReturns

\* the poll cycle and the requests that can arrive while it runs, at one
\* instant of the clock (no retry timer comes due)
LiveNext ==
    \/ AlarmFires
    \/ RefreshMessage
    \/ RequestSettles
    \/ StorageCompletes
    \/ NotificationReturns

\* the service with one platform enabled, or none, and every kind of
\* notification switched on
LiveInit ==
    /\ apiClients = BackgroundClients
    /\ AggQuiet
    /\ BgQuiet
    /\ settings \in {SettingsWith({"twitch"}, TRUE, FALSE, TRUE),
                     SettingsWith({}, TRUE, FALSE, TRUE)}
    /\ alarm = PeriodicAlarm(settings)
    /\ AuxQuiet

SpecLive ==
    /\ LiveInit
    /\ [][LiveNext]_vars
    /\ WF_vars(AwaitedReturns)

\* C20: whenever a poll cycle is in flight or the busy flag is set, a state
\* follows in which no cycle is in flight and the busy flag is released
C20_PollingLeadsToIdle ==
    (InFlight # {} \/ isUpdating) ~> (InFlight = {} /\ ~isUpdating)

\* one cycle has ended successfully and a later one has failed; both have
\* released the busy flag
C20_Witness ==
    /\ lastUpdateTime # NoTime
    /\ updateAttempts = 1
    /\ InFlight = {}
    /\ ~isUpdating

(***************************************************************************)
(* Properties of the background service (Spec), continued.                 *)
(***************************************************************************)
\* C21: every write a poll cycle issues to the shared state has taken effect
\* when the cycle releases the busy flag: while the flag is clear, no
\* previousStreams write is outstanding
C21_NoWriteOutlivesTheFlag ==
    ~isUpdating => pendingPrev = <<>>

(***************************************************************************)
(* The background service across restarts of its process (SpecRestart).    *)
(***************************************************************************)
\* ids of the entries of a stored list whose notified flag is set
FlaggedIds(list) == {list[j].id : j \in {k \in 1..Len(list) : list[k].notified}}

\* the process is restarted between two polls and initializeBackgroundService
\* runs (background.js 44-92): module state is as at load, DataManager
\* reloads the stored snapshot (DataManager.js 23-40), the
\* NotificationManager is constructed and initialized without settings
\* (part_000 10-32), the alarm is set up again
Restart ==
    /\ InFlight = {}
    /\ pendingPrev = <<>>
    /\ isUpdating' = FALSE
    /\ updateAttempts' = 0
    /\ lastUpdateTime' = NoTime
    /\ retryTimers' = <<>>
    /\ badge' = ""
    /\ dmStreams' = stStreams
    /\ dmSchedules' = stSchedules
    /\ alarm' = PeriodicAlarm(settings)
    /\ nmSettings' = NoSettings
    /\ notifiedStreamIds' = {}
    /\ notifiedScheduleIds' = {}
    /\ nmPending' = <<>>
    /\ nmEmitted' = <<Event("notification:initialized", NoEntity)>>
    /\ UNCHANGED <<settings, stStreams, stSchedules, stPrevious, pendingPrev,
                   pc, loc, envVars, histVars, aggVars, deltaVars, compVars,
                   osNotifications, nmCall, nmCalls, nmSucceeded>>

RestartNext == LiveNext \/ Restart

SpecRestart == LiveInit /\ [][RestartNext]_vars

\* C22: after a restart the in-memory notified sets hold exactly the
\* entities whose persisted notified flag is set, and the busy flag is clear
C22_NotifiedSetsRebuilt ==
    [][Restart =>
          /\ notifiedStreamIds' = FlaggedIds(stStreams')
          /\ notifiedScheduleIds' = FlaggedIds(stSchedules')
          /\ ~isUpdating']_vars

(***************************************************************************)
(* DataManager: the operations that change a snapshot, called one at a     *)
(* time as background.js calls them (SpecData).                            *)
(***************************************************************************)
\* the entries handed to the operations: streams of two ids with either
\* notified flag, schedules of one id
DataStreamChoices ==
    {[Stream("twitch", i) EXCEPT !.notified = n] :
        i \in {"1", "2"}, n \in BOOLEAN}

DataScheduleChoices ==
    {[Schedule("twitch", "1", ScheduleStart) EXCEPT !.notified = n] :
        n \in BOOLEAN}

\* the arrays handed to replaceStreams / replaceSchedules: any array of
\* entries, as APIManager concatenates the platforms' responses
DataLists(choices) == SeqsUpTo(choices, MaxSnapshot)

\* updateStream / updateSchedule, lines 138-150 / 157-169: the first entry
\* with the key is replaced, an entry with a new key is appended
Upsert(list, e) ==
    IF HasKey(list, e)
    THEN LET first == CHOOSE j \in 1..Len(list) :
                         /\ Key(list[j]) = Key(e)
                         /\ \A k \in 1..(j - 1) : Key(list[k]) # Key(e)
         IN  [list EXCEPT ![first] = e]
    ELSE Append(list, e)

DataInit ==
    /\ apiClients = BackgroundClients
    /\ AggQuiet
    /\ BgQuiet
    /\ settings = SettingsWith({"twitch", "youtube"}, TRUE, FALSE, TRUE)
    /\ alarm = PeriodicAlarm(settings)
    /\ AuxQuiet

\* what the DataManager operations leave alone
DataOutside ==
    <<schedVars, alarm, settings, stPrevious, pendingPrev, pc, loc, envVars,
      histVars, aggVars, deltaVars, nmVars, stSettings, ctlPending, messages,
      errVars, rqVars, lateVars>>

\* replaceStreams(streams), lines 180-183, up to the await of saveStreams
DmReplaceStreams(list) ==
    /\ dmSave = NoSave
    /\ dmStreams' = list
    /\ dmSave' = [key |-> "streams", list |-> list]
    /\ UNCHANGED <<dmSchedules, stStreams, stSchedules, DataOutside>>

\* replaceSchedules(schedules), lines 190-193, up to the await
DmReplaceSchedules(list) ==
    /\ dmSave = NoSave
    /\ dmSchedules' = list
    /\ dmSave' = [key |-> "schedules", list |-> list]
    /\ UNCHANGED <<dmStreams, stStreams, stSchedules, DataOutside>>

\* updateStream(streamData), lines 138-150, up to the await
DmUpdateStream(e) ==
    /\ dmSave = NoSave
    /\ dmStreams' = Upsert(dmStreams, e)
    /\ dmSave' = [key |-> "streams", list |-> dmStreams']
    /\ UNCHANGED <<dmSchedules, stStreams, stSchedules, DataOutside>>

\* updateSchedule(scheduleData), lines 157-169, up to the await
DmUpdateSchedule(e) ==
    /\ dmSave = NoSave
    /\ dmSchedules' = Upsert(dmSchedules, e)
    /\ dmSave' = [key |-> "schedules", list |-> dmSchedules']
    /\ UNCHANGED <<dmStreams, stStreams, stSchedules, DataOutside>>

\* saveStreams / saveSchedules resume: the write has landed (lines 48-52 /
\* 94-98)
DmSaveDone ==
    /\ dmSave # NoSave
    /\ dmSave' = NoSave
    /\ IF dmSave.key = "streams"
       THEN /\ stStreams' = dmSave.list
            /\ dmStreams' = dmSave.list
            /\ UNCHANGED <<dmSchedules, stSchedules>>
       ELSE /\ stSchedules' = dmSave.list
            /\ dmSchedules' = dmSave.list
            /\ UNCHANGED <<dmStreams, stStreams>>
    /\ UNCHANGED DataOutside

DataNext ==
    \/ \E list \in DataLists(DataStreamChoices) : DmReplaceStreams(list)
    \/ \E list \in DataLists(DataScheduleChoices) : DmReplaceSchedules(list)
    \/ \E e \in DataStreamChoices : DmUpdateStream(e)
    \/ \E e \in DataScheduleChoices : DmUpdateSchedule(e)
    \/ DmSaveDone

SpecData == DataInit /\ [][DataNext]_vars

\* no two entries of the list share an identity key
OnePerKey(list) ==
    \A j, k \in 1..Len(list) : Key(list[j]) = Key(list[k]) => j = k

\* C23: the stream snapshot and the schedule snapshot, in memory and
\* persisted, each hold at most one entry per identity key
C23_OneEntryPerKey ==
    /\ OnePerKey(dmStreams)
    /\ OnePerKey(dmSchedules)
    /\ OnePerKey(stStreams)
    /\ OnePerKey(stSchedules)

(***************************************************************************)
(* The background service with settings operations and the settings_updated *)
(* and auth_updated messages (SpecControl).  Notifications are switched    *)
(* off, so a poll cycle is fetch and store; the clock stands still.        *)
(***************************************************************************)
\* update intervals, in seconds: below the minimum, the default, above it
IntervalChoices == {30, 60, 300}

ControlSettings(enabled, interval) ==
    [SettingsWith(enabled, FALSE, FALSE, FALSE) EXCEPT !.updateInterval = interval]

\* the settings the options page or a settings operation may produce
ControlSettingsChoices ==
    {ControlSettings(enabled, interval) :
        enabled \in {{"twitch"}, {}}, interval \in IntervalChoices}

\* loading that leaves the settings in memory as they are
NewSettings_stale(data) == settings

\* new Settings(data), part_005 63-66: updateInterval || 60
NewSettings(data) ==
    [data EXCEPT !.updateInterval = IF @ = 0 THEN 60 ELSE @]

\* the badge text of scheduleImmediateUpdate (line 447)
ScheduledBadge == "scheduled"

\* chrome.alarms.create('fetchStreamData', { delayInMinutes: 0.1 }) of
\* scheduleImmediateUpdate: an alarm of the same name that fires once
OneShotAlarm ==
    [armed |-> TRUE, periodic |-> FALSE, delaySeconds |-> InitialDelaySeconds,
     periodSeconds |-> 0]

ControlInit ==
    /\ apiClients = BackgroundClients
    /\ AggQuiet
    /\ BgQuiet
    /\ settings = ControlSettings({"twitch"}, 60)
    /\ alarm = PeriodicAlarm(settings)
    /\ AuxQuiet

\* what the control handlers leave alone
ControlOutside ==
    <<isUpdating, updateAttempts, lastUpdateTime, retryTimers, dataVars,
      pendingPrev, pc, loc, envVars, histVars, aggVars, deltaVars, nmVars,
      dmSave, errVars, rqVars, lateVars>>

\* one more control input is handled
ControlInput ==
    /\ messages < MaxMessages
    /\ messages' = messages + 1

\* the options page stores new settings (it sends settings_updated next)
OptionsSaved(s) ==
    /\ ControlInput
    /\ s # stSettings
    /\ stSettings' = s
    /\ UNCHANGED <<settings, alarm, badge, ctlPending, ControlOutside>>

\* onMessage settings_updated, lines 509-521: loadSettings is called
SettingsUpdatedMessage ==
    /\ ControlInput
    /\ ctlPending' = Append(ctlPending, [op |-> "load", value |-> settings])
    /\ UNCHANGED <<settings, stSettings, alarm, badge, ControlOutside>>

\* onMessage auth_updated, lines 523-531, and the auth listeners of lines
\* 129-136: scheduleImmediateUpdate (lines 446-451)
AuthUpdatedMessage ==
    /\ ControlInput
    /\ badge' = ScheduledBadge
    /\ alarm' = OneShotAlarm
    /\ UNCHANGED <<settings, stSettings, ctlPending, ControlOutside>>

\* updateSetting / updateSettings / saveSettings(newSettings) /
\* resetSettings of SettingsManager (SettingsManager.js 44-162) with a
\* changed value, up to the await of the storage write: the settings are
\* replaced and 'settings:updated', 'settings:bulkUpdated' or
\* 'settings:reset' is emitted, to which background.js does not listen
SmUpdateSettings(s) ==
    /\ ControlInput
    /\ s # settings
    /\ settings' = s
    /\ ctlPending' = Append(ctlPending, [op |-> "save", value |-> s])
    /\ UNCHANGED <<stSettings, alarm, badge, ControlOutside>>

\* callbacks of one chrome API arrive in the order of the calls
IsFirstOfItsApi(i) ==
    \A j \in 1..(i - 1) :
        (ctlPending[j].op = "clear") # (ctlPending[i].op = "clear")

\* a chrome call of a control handler calls back:
\*   storage.local.set of saveSettings (lines 51-56): 'settings:saved';
\*   storage.local.get of loadSettings (lines 73-77), after which the
\*     message handler calls setupAlarms (line 513), which calls
\*     chrome.alarms.clear (line 144);
\*   alarms.clear of setupAlarms (lines 144-155): the alarm is created
CtlDone(i) ==
    /\ i \in 1..Len(ctlPending)
    /\ IsFirstOfItsApi(i)
    /\ LET call == ctlPending[i]
           rest == SubSeq(ctlPending, 1, i - 1)
                   \o SubSeq(ctlPending, i + 1, Len(ctlPending))
       IN  CASE call.op = "save" ->
                  /\ stSettings' = call.value
                  /\ ctlPending' = rest
                  /\ UNCHANGED <<settings, alarm>>
             [] call.op = "load" ->
                  /\ settings' = NewSettings(stSettings)
                  /\ ctlPending' = Append(rest, [op |-> "clear",
                                                 value |-> settings'])
                  /\ UNCHANGED <<stSettings, alarm>>
             [] call.op = "clear" ->
                  /\ alarm' = PeriodicAlarm(GetSettings)
                  /\ ctlPending' = rest
                  /\ UNCHANGED <<settings, stSettings>>
    /\ UNCHANGED <<badge, messages, ControlOutside>>

ControlNext ==
    \/ AlarmFires
    \/ \E t \in Awaiting("getStreams") :
         \E resp \in AnswersTo("streams", loc[t].platforms) :
            GetStreamsSettled(t, resp)
    \/ \E t \in Tasks : SaveStreamsDone(t)
    \/ \E t \in Awaiting("getSchedules") :
         \E resp \in AnswersTo("schedules",
                               ScheduleCapable(loc[t].platforms)) :
            GetSchedulesSettled(t, resp)
    \/ \E t \in Tasks : SaveSchedulesDone(t)
    \/ \E s \in ControlSettingsChoices : OptionsSaved(s)
    \/ SettingsUpdatedMessage
    \/ AuthUpdatedMessage
    \/ \E i \in 1..Len(ctlPending) : CtlDone(i)

SpecControl == ControlInit /\ [][ControlNext]_vars

\* the same with the settings operations of SettingsManager called in the
\* background context
SettingsNext ==
    \/ ControlNext
    \/ \E s \in ControlSettingsChoices : SmUpdateSettings(s)

SpecSettings == ControlInit /\ [][SettingsNext]_vars

(***************************************************************************)
(* Properties of the settings and control handlers (SpecSettings,         *)
(* SpecControl).                                                           *)
(***************************************************************************)
\* this step is a settings operation of SettingsManager that changes
\* updateInterval or enabledPlatforms
IntervalOrPlatformsChanged ==
    /\ messages' = messages + 1
    /\ \/ settings'.updateInterval # settings.updateInterval
       \/ settings'.enabledPlatforms # settings.enabledPlatforms

\* the re-creation of the periodic trigger has been started or done
TriggerRecreated ==
    \/ \E i \in 1..Len(ctlPending') : ctlPending'[i].op = "clear"
    \/ /\ alarm' = PeriodicAlarm(settings')
       /\ alarm' # alarm

\* C24: a settings operation that alters updateInterval or enabledPlatforms
\* re-creates the periodic trigger at once
C24_SettingsChangeReschedules ==
    [][IntervalOrPlatformsChanged => TriggerRecreated]_vars

\* the alarms.clear calls of setupAlarms that have not called back
ClearsPending(pending) ==
    [k \in 1..Cardinality({i \in 1..Len(pending) : pending[i].op = "clear"}) |->
        pending[CHOOSE i \in 1..Len(pending) :
                  /\ pending[i].op = "clear"
                  /\ Cardinality({j \in 1..i : pending[j].op = "clear"}) = k]]

\* the settings the most recent settings_updated reload read from the store
LastReloaded(pending) == ClearsPending(pending)[Len(ClearsPending(pending))].value

\* the period, in seconds, the claim derives from an update interval
PeriodFor(interval) == IF interval >= 60 THEN interval ELSE 60

\* C25: handling settings_updated first replaces the settings in memory by
\* the stored ones and only then starts re-creating the trigger; when
\* the re-creation completes there is one periodic alarm whose period comes
\* from the reloaded updateInterval; neither step touches a poll in flight
C25_ReloadThenReschedule ==
    [][\A i \in 1..Len(ctlPending) :
          CtlDone(i) =>
            /\ pc' = pc /\ loc' = loc /\ isUpdating' = isUpdating
            /\ retryTimers' = retryTimers
            /\ ctlPending[i].op = "load" =>
                 /\ settings' = [stSettings EXCEPT !.updateInterval =
                                    IF @ = 0 THEN 60 ELSE @]
                 /\ alarm' = alarm
                 /\ LastReloaded(ctlPending') = settings'
            /\ ctlPending[i].op = "clear" =>
                 /\ alarm'.armed /\ alarm'.periodic
                 /\ alarm'.periodSeconds =
                      PeriodFor(LastReloaded(ctlPending).updateInterval)]_vars

\* a reload that changed the interval has re-created the alarm while a poll
\* cycle is in flight
C25_Witness ==
    /\ ctlPending = <<>>
    /\ messages > 0
    /\ settings.updateInterval = 300
    /\ alarm.periodic /\ alarm.periodSeconds = 300
    /\ InFlight # {}
    /\ isUpdating

\* the alarm is the periodic one, from the given update interval
PeriodicFrom(a, interval) ==
    /\ a.armed /\ a.periodic
    /\ a.periodSeconds = PeriodFor(interval)
    /\ a.periodSeconds >= 60
    /\ a.delaySeconds = 6
    /\ a.delaySeconds < a.periodSeconds

\* C26: whenever the periodic trigger is configured its period is
\* max(60 seconds, updateInterval) of the settings in memory, so never
\* below a minute, and its first firing is due after the initial delay of
\* 6 seconds, which is shorter than any period
C26_PeriodClampedToAMinute ==
    /\ PeriodicFrom(alarm, settings.updateInterval)
    /\ [][(alarm' # alarm /\ alarm'.periodic) =>
            PeriodicFrom(alarm', settings.updateInterval)]_vars

\* the trigger was re-created from an update interval below a minute
C26_Witness ==
    /\ messages > 0
    /\ ctlPending = <<>>
    /\ settings.updateInterval = 30
    /\ alarm.armed /\ alarm.periodic
    /\ alarm.periodSeconds = 60

\* C27: the badge shows the loading text exactly while the busy flag is set
C27_LoadingIffBusy == isUpdating <=> badge = "..."

\* the badge shows a count
BadgeShowsNumber == badge \notin {"", "...", "!", ScheduledBadge}

\* C28: with no poll in flight, a number on the badge is the number of
\* streams in the snapshot DataManager holds
C28_BadgeCountsSnapshot ==
    (InFlight = {} /\ ~isUpdating /\ BadgeShowsNumber)
        => badge = ToString(Len(dmStreams))

(***************************************************************************)
(* ErrorManager: the error history (SpecErrors).  A report is named by its *)
(* number in the order of the reportError calls.                           *)
(***************************************************************************)
ErrorsInit ==
    /\ apiClients = BackgroundClients
    /\ AggQuiet
    /\ BgQuiet
    /\ settings = SettingsWith({"twitch"}, TRUE, FALSE, TRUE)
    /\ alarm = PeriodicAlarm(settings)
    /\ AuxQuiet

ErrorsOutside ==
    <<aggVars, bgVars, deltaVars, nmVars, dmSave, stSettings, ctlPending,
      messages, rqVars, lateVars>>

\* lines 263-265 cutting at the other end: slice(1)
Truncated_newestDropped(list) ==
    IF Len(list) > maxErrorCount THEN SubSeq(list, 2, Len(list)) ELSE list

\* lines 263-265: slice(0, maxErrorCount) when the list is too long
Truncated(list) ==
    IF Len(list) > maxErrorCount THEN SubSeq(list, 1, maxErrorCount) ELSE list

\* reportError, lines 254-279: unshift, then the cut
ReportError ==
    /\ reported < MaxReports
    /\ reported' = reported + 1
    /\ errors' = Truncated(<<reported'>> \o errors)
    /\ UNCHANGED ErrorsOutside

\* clearErrors, lines 301-304, and initialize, lines 243-246
ClearErrors ==
    /\ errors # <<>>
    /\ errors' = <<>>
    /\ UNCHANGED <<reported, ErrorsOutside>>

\* getRecentErrors(count), lines 286-288
GetRecentErrors(count) == SubSeq(errors, 1, IF count < Len(errors) THEN count ELSE Len(errors))

\* getAllErrors, lines 294-296
GetAllErrors == errors

ErrorsNext == ReportError \/ ClearErrors

SpecErrors == ErrorsInit /\ [][ErrorsNext]_vars

(***************************************************************************)
(* Properties of the error history (SpecErrors).                           *)
(***************************************************************************)
\* C29: the history holds at most 50 reports, and they are the most recent
\* ones, newest first, without a gap; a report is put in front, and it
\* pushes out the oldest entry, and only that one, when 50 are held
C29_HistoryKeepsNewestFifty ==
    /\ [](/\ Len(GetAllErrors) <= 50
          /\ \A i \in 1..Len(GetAllErrors) :
                GetAllErrors[i] = reported - (i - 1)
          /\ \A n \in 0..2 : GetRecentErrors(n) =
                [i \in 1..(IF n < Len(errors) THEN n ELSE Len(errors)) |->
                    reported - (i - 1)])
    /\ [][reported' = reported + 1 =>
            /\ errors'[1] = reported'
            /\ IF Len(errors) < 50
               THEN errors' = <<reported'>> \o errors
               ELSE errors' = <<reported'>> \o SubSeq(errors, 1, 49)]_vars

\* the 51st and the 52nd report since the history was emptied have been
\* made: the two oldest are gone
C29_Witness ==
    /\ reported = 52
    /\ Len(errors) = 50
    /\ errors[1] = 52
    /\ errors[50] = 3

(***************************************************************************)
(* BaseAPIClient.request and executeRequest (SpecRequest): one client, its *)
(* requests made one after the other.                                      *)
(***************************************************************************)
\* what a fetch whose signal has not fired can settle with: a response
\* with a status, or a rejection by a network error
HttpStatuses == {200, 404, 429, 500, 502, 503}

FetchOutcomes ==
    [kind : {"response"}, status : HttpStatuses]
        \cup {[kind |-> "network", status |-> 0]}

\* the rejection of a fetch whose signal has fired: an AbortError
AbortError == [kind |-> "abort", status |-> 0]

\* response.ok
Ok(outcome) == outcome.kind = "response" /\ outcome.status \in 200..299

\* line 606: no status (a network error), or 502 or 503
Transient(outcome) ==
    ~(outcome.status # 0 /\ outcome.status # 503 /\ outcome.status # 502)

\* the catch block of request, lines 545-559: the error it throws
RequestError(outcome) ==
    IF outcome.kind = "abort" THEN "timeout"
    ELSE IF outcome.status = 429 THEN "rateLimit"
    ELSE "apiError"

RequestInit ==
    /\ apiClients = BackgroundClients
    /\ AggQuiet
    /\ BgQuiet
    /\ settings = SettingsWith({"twitch"}, TRUE, FALSE, TRUE)
    /\ alarm = PeriodicAlarm(settings)
    /\ AuxQuiet

RequestOutside ==
    <<aggVars, bgVars, deltaVars, nmVars, dmSave, stSettings, ctlPending,
      messages, errVars, lateVars>>

\* request, lines 510-538, and executeRequest up to its first fetch
Request ==
    /\ requests < MaxRequests
    /\ rq.pc \in {"idle", "done"}
    /\ requests' = requests + 1
    /\ rq' = [NoRequest EXCEPT !.pc = "fetch", !.fetches = 1]
    /\ UNCHANGED RequestOutside

\* the setTimeout of lines 526-528 comes due: controller.abort()
TimeoutFires ==
    /\ rq.pc \in {"fetch", "wait"}
    /\ ~rq.aborted
    /\ rq' = [rq EXCEPT !.aborted = TRUE]
    /\ UNCHANGED <<requests, RequestOutside>>

\* the fetch of line 580 settles: lines 586-611, and for a return or a throw
\* the rest of request, lines 538-564
FetchSettles(outcome) ==
    /\ rq.pc = "fetch"
    /\ outcome = AbortError <=> rq.aborted
    /\ rq' = IF Ok(outcome)
             THEN [rq EXCEPT !.pc = "done", !.last = outcome,
                             !.result = "data"]
             ELSE IF \/ outcome.kind = "abort"
                     \/ rq.retries >= maxRetries
                     \/ ~Transient(outcome)
             THEN [rq EXCEPT !.pc = "done", !.last = outcome,
                             !.result = RequestError(outcome)]
             ELSE [rq EXCEPT !.pc = "wait", !.last = outcome]
    /\ UNCHANGED <<requests, RequestOutside>>

\* the wait of line 611 ends: retries++ and the next fetch of the loop
WaitEnds ==
    /\ rq.pc = "wait"
    /\ rq' = [rq EXCEPT !.pc = "fetch", !.retries = @ + 1, !.fetches = @ + 1]
    /\ UNCHANGED <<requests, RequestOutside>>

RequestNext ==
    \/ Request
    \/ TimeoutFires
    \/ \E outcome \in FetchOutcomes \cup {AbortError} : FetchSettles(outcome)
    \/ WaitEnds

SpecRequest == RequestInit /\ [][RequestNext]_vars

(***************************************************************************)
(* Properties of a platform request (SpecRequest).                         *)
(***************************************************************************)
\* this step calls fetch again for the request in progress
RetryStep == requests' = requests /\ rq'.fetches = rq.fetches + 1

\* this step ends the request with an error thrown to the caller
RejectedStep == rq'.pc = "done" /\ rq'.result # "data"

\* a request makes at most four fetch calls
AtMostFourFetches == rq.fetches <= 4

\* fetch is called again only after a network error or a 502 or 503
RetriesOnlyTransient ==
    [][RetryStep =>
         \/ rq.last.kind = "network"
         \/ rq.last.kind = "response" /\ rq.last.status \in {502, 503}]_vars

\* a response with another error status ends the request at once
OtherStatusFailsAtOnce ==
    [][\A outcome \in FetchOutcomes :
          (FetchSettles(outcome) /\ outcome.kind = "response"
               /\ outcome.status \notin {200, 502, 503}) => RejectedStep]_vars

\* fetch is not called again once the abort signal has fired
NoRetryAfterAbort == [][RetryStep => ~rq.aborted]_vars

\* a request whose signal fired ends rejected, like any failed request
AbortIsARejection ==
    (rq.pc = "done" /\ rq.aborted) => rq.result \in {"timeout", "rateLimit", "apiError"}

\* C30: a request makes at most maxRetries + 1 = 4 fetch calls; it retries
\* only after a network error or a 502 or 503 response, fails at once on
\* another error status, does not retry once the abort signal has fired,
\* and an aborted request ends as a rejected request
C30_BoundedRetries ==
    /\ []AtMostFourFetches
    /\ RetriesOnlyTransient
    /\ OtherStatusFailsAtOnce
    /\ NoRetryAfterAbort
    /\ []AbortIsARejection

(***************************************************************************)
(* EventEmitter (SpecEmitter): the listeners of one event.  A call of emit *)
(* runs its listeners to the end before it returns, nested emits included, *)
(* so it is one step.  An emit is named by its number in the order of the  *)
(* calls, which stands for its arguments.                                  *)
(***************************************************************************)
\* what a registered callback does when called: it records the call, or it
\* records it and, when called by an emit from outside, emits the event
\* again
CallbackKinds == {"log", "reemit"}

\* off(event, callback), lines 70-91: the listeners that are not callback
Off(listeners, callback) == SelectSeq(listeners, LAMBDA l : l # callback)

RECURSIVE EmitFrom(_, _, _, _, _)

\* emit(event, ...args), lines 99-114, called with the emitter in state e
\* at nesting depth depth: the state when it returns
Emit(e, depth) ==
    LET started == [e EXCEPT !.emits = @ + 1]
    IN  EmitFrom(started, started.listeners, 1, started.emits, depth)

\* the forEach of lines 105-111 from index i of the array callbacks
EmitFrom(e, callbacks, i, arg, depth) ==
    IF i > Len(callbacks) THEN e
    ELSE LET l == callbacks[i]
             \* onceWrapper, lines 55-58: off first, then the callback
             removed == IF l.kind = "once"
                        THEN [e EXCEPT !.listeners = Off(@, l)]
                        ELSE e
             called == [removed EXCEPT
                          !.calls = Append(@, [id |-> l.id, arg |-> arg])]
             after == IF l.kind = "reemit" /\ depth = 0
                      THEN Emit(called, depth + 1)
                      ELSE called
         IN  EmitFrom(after, callbacks, i + 1, arg, depth)

EmitterInit ==
    /\ apiClients = BackgroundClients
    /\ AggQuiet
    /\ BgQuiet
    /\ settings = SettingsWith({"twitch"}, TRUE, FALSE, TRUE)
    /\ alarm = PeriodicAlarm(settings)
    /\ AuxQuiet

EmitterOutside ==
    <<aggVars, bgVars, deltaVars, nmVars, dmSave, stSettings, ctlPending,
      messages, errVars, rqVars, boot, rf>>

\* on(event, callback), lines 39-46
EeOn(kind) ==
    /\ Len(ee.listeners) < MaxListeners
    /\ ee' = [ee EXCEPT !.listeners =
                 Append(@, [kind |-> kind, id |-> 0])]
    /\ UNCHANGED EmitterOutside

\* once(event, callback), lines 54-62; the callback records its calls
EeOnce ==
    /\ Len(ee.listeners) < MaxListeners
    /\ ee' = [ee EXCEPT
                 !.onces = Append(@, ee.emits),
                 !.listeners = Append(@, [kind |-> "once",
                                          id |-> Len(ee.onces) + 1])]
    /\ UNCHANGED EmitterOutside

\* emit(event, ...args) called from outside a listener
EeEmit ==
    /\ ee.emits < MaxEmits
    /\ ee' = Emit(ee, 0)
    /\ UNCHANGED EmitterOutside

EmitterNext ==
    \/ \E kind \in CallbackKinds : EeOn(kind)
    \/ EeOnce
    \/ EeEmit

SpecEmitter == EmitterInit /\ [][EmitterNext]_vars

(***************************************************************************)
(* Properties of the EventEmitter (SpecEmitter).                           *)
(***************************************************************************)
\* the arguments the callback of the k-th once registration was called with
OnceCalls(k) ==
    SelectSeq(ee.calls, LAMBDA c : c.id = k)

OnceRegistered(k) ==
    \E i \in 1..Len(ee.listeners) :
        ee.listeners[i].kind = "once" /\ ee.listeners[i].id = k

\* C31: the callback of a once registration is called for the first emit
\* after the registration, with that emit's arguments, and for no other
\* emit; from that emit on it is not registered any more
C31_OnceRunsOnce ==
    \A k \in 1..Len(ee.onces) :
        IF ee.emits > ee.onces[k]
        THEN /\ Len(OnceCalls(k)) = 1
             /\ OnceCalls(k)[1].arg = ee.onces[k] + 1
             /\ ~OnceRegistered(k)
        ELSE /\ OnceCalls(k) = <<>>
             /\ OnceRegistered(k)

(***************************************************************************)
(* Properties of the background service (Spec): retry timers, frame of a   *)
(* failed cycle, schedule failures.                                        *)
(***************************************************************************)
\* C32: at most one retry timer is pending, and one is pending only while
\* the cycle that completed last was a failure (the attempt counter, which
\* a success sets to 0, is positive)
C32_OneRetryOnlyAfterFailure ==
    /\ Len(retryTimers) <= 1
    /\ retryTimers # <<>> => updateAttempts > 0

(***************************************************************************)
(* Properties of the settings and control handlers (SpecControl),          *)
(* continued.                                                              *)
(***************************************************************************)
\* a re-creation of the periodic alarm is under way: settings are being
\* reloaded for setupAlarms, or its alarms.clear has not called back
RecreationPending ==
    \E i \in 1..Len(ctlPending) : ctlPending[i].op \in {"load", "clear"}

\* C33: a repeating fetchStreamData alarm is armed, or is being re-created
\* by setupAlarms, at all times
C33_RepeatingTriggerStaysArmed ==
    (alarm.armed /\ alarm.periodic) \/ RecreationPending

(***************************************************************************)
(* Properties of the background service (Spec): notified flags and the     *)
(* previous snapshot.                                                      *)
(***************************************************************************)
\* this step is invocation t coming back from notifyNewStreams
NotifiedStep(t) == pc[t] = "notifyStreams" /\ pc'[t] = "saveNotified"

\* C34: a stream whose notified flag a cycle sets, in the array it stores
\* after notifyNewStreams, was in a notification that the cycle issued
C34_MarkedOnlyIfIssued ==
    [][\A t \in Tasks :
          NotifiedStep(t) =>
            \A j \in 1..Len(loc'[t].saving) :
               (loc'[t].saving[j].notified /\ ~loc[t].streams[j].notified) =>
                  liveNotified'[Key(loc[t].streams[j])] =
                      liveNotified[Key(loc[t].streams[j])] + 1]_vars

\* previousStreams as the store holds it once the writes issued have landed
PreviousOnceLanded(pending, stored) ==
    IF pending # <<>> THEN pending[Len(pending)] ELSE stored

KeysIn(list) == {Key(list[j]) : j \in 1..Len(list)}

\* C35: when a cycle completes successfully, previousStreams holds (at the
\* latest when its write has landed) the keys of the streams the cycle
\* fetched
C35_PreviousIsLastFetched ==
    [][\A t \in Tasks :
          (pc[t] \notin {"idle", "getStreams"} /\ pc'[t] = "idle") =>
             KeysIn(PreviousOnceLanded(pendingPrev', stPrevious'))
                 = KeysIn(loc[t].streams)]_vars

\* C36: a cycle that fails because every enabled platform failed leaves
\* both snapshots in DataManager and in the store (the notified flags are
\* part of them), previousStreams, the notified counts and the last-success
\* timestamp as they were; the attempt counter goes up by one, the badge
\* shows the error, and a retry timer is added if a retry is due
C36_FailedCycleChangesNoData ==
    [][FailureStep =>
         /\ UNCHANGED <<dmStreams, dmSchedules, stStreams, stSchedules,
                        stPrevious, pendingPrev, lastUpdateTime,
                        liveNotified, reminded>>
         /\ updateAttempts' = updateAttempts + 1
         /\ badge' = "!"
         /\ \/ retryTimers' = retryTimers
            \/ retryTimers' = Append(retryTimers, now + RETRY_DELAY_MS)]_vars

\* a cycle failed after an earlier one had stored a stream and its
\* previous snapshot
C36_Witness ==
    /\ updateAttempts = 1
    /\ badge = "!"
    /\ InFlight = {}
    /\ dmStreams # <<>>
    /\ stStreams # <<>>
    /\ stPrevious # <<>>
    /\ lastUpdateTime # NoTime

\* this step is the schedule fetch of invocation t settling with a
\* rejection: replaceSchedules is skipped
ScheduleFailureStep(t) ==
    pc[t] = "getSchedules" /\ pc'[t] \notin {"getSchedules", "saveSchedules"}

BootInit ==
    /\ apiClients = BackgroundClients
    /\ AggQuiet
    /\ BgQuiet
    /\ settings = SettingsWith({"twitch"}, TRUE, FALSE, TRUE)
    /\ alarm = PeriodicAlarm(settings)
    /\ AuxQuiet

BootOutside ==
    <<aggVars, bgVars, deltaVars, nmVars, dmSave, stSettings, ctlPending,
      messages, errVars, rqVars, ee, rf>>

\* the step counted as run once more
Ran(b, step) == [b EXCEPT !.ran[step] = @ + 1]

\* initializeBackgroundService is called, lines 44-51: it returns at once
\* when isInitialized is set, else it calls settingsManager.initialize
BootCalled(i) ==
    /\ boot.pc[i] = "notCalled"
    /\ boot' = IF boot.isInitialized
               THEN [boot EXCEPT !.pc[i] = "returned"]
               ELSE [Ran(boot, "settings") EXCEPT !.pc[i] = "settings"]
    /\ UNCHANGED BootOutside

\* an await of lines 51-68 resumes: the next manager is initialized; after
\* the last one, lines 70-89 run to the end: error handler and event
\* listeners, isInitialized = true, setupAlarms, the start-up refresh
BootResumed(i) ==
    /\ boot.pc[i] \in {"settings", "api", "data", "notification"}
    /\ boot' =
         CASE boot.pc[i] = "settings" ->
                [Ran(boot, "api") EXCEPT !.pc[i] = "api"]
           [] boot.pc[i] = "api" ->
                [Ran(boot, "data") EXCEPT !.pc[i] = "data"]
           [] boot.pc[i] = "data" ->
                [Ran(boot, "notification") EXCEPT !.pc[i] = "notification"]
           [] boot.pc[i] = "notification" ->
                [Ran(Ran(Ran(boot, "listeners"), "alarms"), "refresh")
                    EXCEPT !.isInitialized = TRUE, !.pc[i] = "done"]
    /\ UNCHANGED BootOutside

BootNext ==
    \/ \E i \in Invocations : BootCalled(i)
    \/ \E i \in Invocations : BootResumed(i)

SpecBoot == BootInit /\ [][BootNext]_vars

(***************************************************************************)
(* Properties of the initialization (SpecBoot).                            *)
(***************************************************************************)
\* C38: every step of the initialization runs at most once
C38_InitializedOnce == \A step \in InitSteps : boot.ran[step] <= 1

(***************************************************************************)
(* Properties of the NotificationManager (SpecNotif): overlapping calls.   *)
(***************************************************************************)
\* C39: a call of notifyNewStream or notifyScheduleReminder does not
\* return a notification id (and emit the notified event) for a key for
\* which a call that overlapped it has already returned one
C39_OverlappingCallsNotifyOnce ==
    [][\A i \in 1..Len(nmPending) :
          NotifySettle(i, TRUE) =>
             <<nmPending[i].kind, Key(nmPending[i].entity)>>
                 \notin nmSucceeded]_vars

(***************************************************************************)
(* 'refresh' messages and their responses (SpecRefresh).  A poll cycle is  *)
(* reduced to its start, which takes the busy flag, and its end, as a      *)
(* success or as a failure; cycles are started by the message handler and  *)
(* by the alarm.                                                           *)
(***************************************************************************)
RefreshInit ==
    /\ apiClients = BackgroundClients
    /\ AggQuiet
    /\ BgQuiet
    /\ settings = SettingsWith({"twitch"}, TRUE, FALSE, TRUE)
    /\ alarm = PeriodicAlarm(settings)
    /\ AuxQuiet

RefreshOutside ==
    <<aggVars, bgVars, deltaVars, nmVars, dmSave, stSettings, ctlPending,
      messages, errVars, rqVars, ee, boot>>

\* how the promise of fetchStreamData settles: the early return of line
\* 164, the end of the try block and the catch block (lines 228-249, which
\* does not rethrow) all let the async function return
FetchPromise(outcome) == "resolved"

\* lines 500-505: then answers success: true, catch answers success: false
RefreshResponse(outcome) == [success |-> FetchPromise(outcome) = "resolved"]

\* the alarm handler calls fetchStreamData, lines 486-491 and 161-168
RfAlarm ==
    /\ ~rf.busy
    /\ rf' = [rf EXCEPT !.busy = TRUE, !.cycle = "alarm"]
    /\ UNCHANGED RefreshOutside

\* a 'refresh' message is received, lines 499-506: fetchStreamData is
\* called and returns at once when a poll is in flight (lines 162-165),
\* else it takes the busy flag and runs
RfRefresh ==
    /\ Len(rf.requests) < MaxRefreshes
    /\ rf' = IF rf.busy
             THEN [rf EXCEPT !.requests =
                      Append(@, [outcome |-> "skipped", responses |-> <<>>])]
             ELSE [rf EXCEPT !.busy = TRUE, !.cycle = "refresh",
                             !.owner = Len(rf.requests) + 1,
                             !.requests =
                      Append(@, [outcome |-> "running", responses |-> <<>>])]
    /\ UNCHANGED RefreshOutside

\* the cycle in flight ends: at the end of the try block, or in the catch
\* block; the finally block clears the busy flag (lines 214-252)
RfCycleEnds(outcome) ==
    /\ rf.cycle # "none"
    /\ rf' = IF rf.cycle = "refresh"
             THEN [rf EXCEPT !.busy = FALSE, !.cycle = "none", !.owner = 0,
                             !.requests[rf.owner].outcome = outcome]
             ELSE [rf EXCEPT !.busy = FALSE, !.cycle = "none"]
    /\ UNCHANGED RefreshOutside

\* the promise of the fetchStreamData call of request i has settled and
\* its then or catch callback runs, lines 501-505: sendResponse
RfAnswer(i) ==
    /\ i \in 1..Len(rf.requests)
    /\ rf.requests[i].outcome # "running"
    /\ rf.requests[i].responses = <<>>
    /\ rf' = [rf EXCEPT !.requests[i].responses =
                 <<RefreshResponse(rf.requests[i].outcome)>>]
    /\ UNCHANGED RefreshOutside

RefreshNext ==
    \/ RfAlarm
    \/ RfRefresh
    \/ \E outcome \in {"succeeded", "failed"} : RfCycleEnds(outcome)
    \/ \E i \in 1..Len(rf.requests) : RfAnswer(i)

SpecRefresh == RefreshInit /\ [][RefreshNext]_vars

(***************************************************************************)
(* Properties of the 'refresh' responses (SpecRefresh).                    *)
(***************************************************************************)
\* C40: a 'refresh' request gets at most one response (and gets it once
\* its fetchStreamData call has returned), and success: true is answered
\* only to a request whose cycle ran and completed successfully
C40_SuccessOnlyIfCycleSucceeded ==
    \A i \in 1..Len(rf.requests) :
        /\ Len(rf.requests[i].responses) <= 1
        /\ \A k \in 1..Len(rf.requests[i].responses) :
              rf.requests[i].responses[k].success =>
                 rf.requests[i].outcome = "succeeded"

\* each request is answered once and never twice
RefreshAnsweredOnce ==
    \A i \in 1..Len(rf.requests) : Len(rf.requests[i].responses) <= 1
====
